---- MODULE Spec2Model ----
(***************************************************************************)
(* Model of anon-infer-proxy: TokenDetector, the anonymization strategies, *)
(* CryptoUtils, MemoryStorage and AnonEngine.                              *)
(*                                                                         *)
(* A text is a sequence of characters; a character is a one-unit string.   *)
(* Indices into texts are 0-based and spans are half-open, as in the code. *)
(* A digest (SHA-256 / HMAC-SHA-256 output) is one opaque character that   *)
(* is determined by, and determines, the hashed input.                     *)
(***************************************************************************)
EXTENDS Integers, Sequences, FiniteSets, TLC

(***************************************************************************)
(* Bounds of the model.                                                    *)
(***************************************************************************)
MaxIds == 2
MaxTicks == 1
MaxCap == 2
MaxPatterns == 2
MaxTextLen == 3

(***************************************************************************)
(* Characters.                                                             *)
(***************************************************************************)
Letters == {"a", "b", "c", "d", "p", "w", "A"}
Alphabet == Letters \cup {"=", "$", "&", "@", ".", " "}

\* String.prototype.toLowerCase, one character at a time
ToLowerChar(c) == IF c = "A" THEN "a" ELSE c
ToLowerCase(t) == [i \in 1..Len(t) |-> ToLowerChar(t[i])]

\* every character outside the plain alphabet is part of a proxy token
\* ("anon_" / "sem_" followed by base64 letters and digits): alphanumeric or "_"
IsWordChar(c) == c \in Letters \/ c \notin Alphabet

\* JavaScript string helpers on 0-based, half-open positions
CharAt(t, i) == t[i + 1]
Slice(t, a, b) == SubSeq(t, a + 1, b)
Splice(t, a, b, r) == Slice(t, 0, a) \o r \o Slice(t, b, Len(t))

Min(a, b) == IF a < b THEN a ELSE b
Max(a, b) == IF a > b THEN a ELSE b
SetMax(S) == CHOOSE x \in S : \A y \in S : y <= x

(***************************************************************************)
(* TOKEN_PATTERNS.  Of the default catalogue only PASSWORD and EMAIL can   *)
(* match a text over Alphabet: every other default pattern needs a digit,  *)
(* a "-", or a keyword spelled with letters that are not in Letters.       *)
(***************************************************************************)
NoMatch == [found |-> FALSE, index |-> 0, end |-> 0, hasGroup |-> FALSE, gstart |-> 0]

\* the character classes of the two patterns
PasswordFill(c) == c \in {" ", "\""}
PasswordChar(c) == c \notin {" ", "\"", "'"}
EmailLocal(c) == IsWordChar(c) \/ c \in {".", "%", "+", "-"}
EmailDomain(c) == (IsWordChar(c) /\ c # "_") \/ c \in {".", "-"}
EmailTld(c) == c \in Letters \/ c = "|"
InClass(class, c) ==
    CASE class = "PasswordFill" -> PasswordFill(c)
      [] class = "PasswordChar" -> PasswordChar(c)
      [] class = "EmailLocal" -> EmailLocal(c)
      [] class = "EmailDomain" -> EmailDomain(c)
      [] class = "EmailTld" -> EmailTld(c)

\* first position j >= i at which the character is not of the class
RunEnd(class, t, i) ==
    CHOOSE j \in i..Len(t) :
        /\ \A k \in i..(j - 1) : InClass(class, CharAt(t, k))
        /\ (j < Len(t) => ~InClass(class, CharAt(t, j)))

\* PASSWORD: /(?:password|passwd|pwd)["\s]*[:=]["\s]*([^\s"']{8,})/gi anchored at i
PasswordGroupMin == 8
\* the group [g, e)
PasswordGroup(t, i, g, e) ==
    IF e - g < PasswordGroupMin THEN NoMatch
    ELSE [found |-> TRUE, index |-> i, end |-> e, hasGroup |-> TRUE, gstart |-> g]
\* the separator at s1, then filler up to the group
PasswordSep(t, i, s1) ==
    IF s1 >= Len(t) \/ CharAt(t, s1) \notin {":", "="} THEN NoMatch
    ELSE PasswordGroup(t, i, RunEnd("PasswordFill", t, s1 + 1),
                       RunEnd("PasswordChar", t, RunEnd("PasswordFill", t, s1 + 1)))
PasswordAt(t, i) ==
    IF i + 3 > Len(t) \/ Slice(t, i, i + 3) # <<"p", "w", "d">> THEN NoMatch
    ELSE PasswordSep(t, i, RunEnd("PasswordFill", t, i + 3))

\* EMAIL: /\b[A-Za-z0-9._%+-]+@[A-Za-z0-9.-]+\.[A-Z|a-z]{2,}\b/gi anchored at i
WordBoundary(t, i) ==
    (i > 0 /\ IsWordChar(CharAt(t, i - 1))) # (i < Len(t) /\ IsWordChar(CharAt(t, i)))
\* [A-Z|a-z]{2,} after the "." at dot is greedy and gives back until \b holds
EmailEnds(t, dot) ==
    {e \in (dot + 3)..RunEnd("EmailTld", t, dot + 1) : WordBoundary(t, e)}
\* the greedy domain backtracks to the last "." after which a TLD fits
EmailPick(t, i, dots) ==
    IF dots = {} THEN NoMatch
    ELSE [found |-> TRUE, index |-> i, end |-> SetMax(EmailEnds(t, SetMax(dots))),
          hasGroup |-> FALSE, gstart |-> i]
\* the domain run is [at + 1, dend)
EmailDomainRun(t, i, at, dend) ==
    EmailPick(t, i, {d \in (at + 2)..(dend - 1) :
                        CharAt(t, d) = "." /\ EmailEnds(t, d) # {}})
\* the local part ends at position at
EmailLocalRun(t, i, at) ==
    IF at >= Len(t) \/ CharAt(t, at) # "@" THEN NoMatch
    ELSE EmailDomainRun(t, i, at, RunEnd("EmailDomain", t, at + 1))
EmailAt(t, i) ==
    IF i >= Len(t) \/ ~EmailLocal(CharAt(t, i)) \/ ~WordBoundary(t, i) THEN NoMatch
    ELSE EmailLocalRun(t, i, RunEnd("EmailLocal", t, i))

PatternAt(name, t, i) ==
    CASE name = "PASSWORD" -> PasswordAt(t, i)
      [] name = "EMAIL" -> EmailAt(t, i)
      [] OTHER -> NoMatch

\* RegExp.prototype.exec of a global pattern: leftmost match at or after lastIndex
RECURSIVE Exec(_, _, _)
ExecTry(name, t, i, m) == IF m.found THEN m ELSE Exec(name, t, i + 1)
Exec(name, t, lastIndex) ==
    IF lastIndex > Len(t) THEN NoMatch
    ELSE ExecTry(name, t, lastIndex, PatternAt(name, t, lastIndex))

\* a caller-supplied RegExp: a literal text with the global flag
RECURSIVE CustomExec(_, _, _)
CustomExec(pattern, t, lastIndex) ==
    IF Len(pattern.literal) = 0 \/ lastIndex + Len(pattern.literal) > Len(t) THEN NoMatch
    ELSE IF Slice(t, lastIndex, lastIndex + Len(pattern.literal)) = pattern.literal
    THEN [found |-> TRUE, index |-> lastIndex, end |-> lastIndex + Len(pattern.literal),
          hasGroup |-> FALSE, gstart |-> lastIndex]
    ELSE CustomExec(pattern, t, lastIndex + 1)

(***************************************************************************)
(* TokenDetector                                                           *)
(***************************************************************************)
Chars(t) == {t[i] : i \in 1..Len(t)}
CountOf(t, c) == Cardinality({i \in 1..Len(t) : t[i] = c})

\* 1000 * log2(n), n = 1..32
Log2x1000 == <<0, 1000, 1585, 2000, 2322, 2585, 2807, 3000, 3170, 3322, 3459,
               3585, 3700, 3807, 3907, 4000, 4087, 4170, 4248, 4322, 4392, 4459,
               4524, 4585, 4644, 4700, 4755, 4807, 4858, 4907, 4954, 5000>>

RECURSIVE SumOver(_, _)
SumOver(f, S) ==
    IF S = {} THEN 0
    ELSE LET x == CHOOSE y \in S : TRUE IN f[x] + SumOver(f, S \ {x})

\* calculateEntropy: Shannon entropy in thousandths of a bit per character
calculateEntropy(str) ==
    LET n == Len(str)
        part == [c \in Chars(str) |-> CountOf(str, c) * Log2x1000[CountOf(str, c)]]
    IN IF n = 0 THEN 0 ELSE (n * Log2x1000[n] - SumOver(part, Chars(str))) \div n

\* baseConfidence, in hundredths
baseConfidence(patternType) ==
    CASE patternType \in {"JWT_TOKEN", "AWS_ACCESS_KEY", "CREDIT_CARD"} -> 95
      [] patternType \in {"BEARER_TOKEN", "EMAIL", "UUID"} -> 90
      [] patternType \in {"API_KEY", "SECRET_KEY"} -> 85
      [] patternType \in {"PHONE", "PRIVATE_IP"} -> 80
      [] patternType = "PASSWORD" -> 70
      [] patternType \in {"HEX_TOKEN", "BASE64_TOKEN"} -> 60
      [] OTHER -> 50

AdjustLength(confidence, length) ==
    IF length > 50 THEN confidence + 10
    ELSE IF length < 16 THEN confidence - 10 ELSE confidence
AdjustEntropy(confidence, entropy) ==
    IF entropy > 4000 THEN confidence + 10
    ELSE IF entropy < 2000 THEN confidence - 20 ELSE confidence
calculateConfidence(patternType, value) ==
    Max(0, Min(100, AdjustEntropy(AdjustLength(baseConfidence(patternType), Len(value)),
                                  calculateEntropy(value))))

\* the three-way overlap test of deduplicateTokens
Overlaps(token, existing) ==
    \/ (token.startIndex >= existing.startIndex /\ token.startIndex < existing.endIndex)
    \/ (token.endIndex > existing.startIndex /\ token.endIndex <= existing.endIndex)
    \/ (token.startIndex <= existing.startIndex /\ token.endIndex >= existing.endIndex)

\* Array.prototype.sort with (a, b) => a.startIndex - b.startIndex: stable
RECURSIVE InsertByStart(_, _)
InsertByStart(sorted, tok) ==
    IF sorted = <<>> THEN <<tok>>
    ELSE IF sorted[Len(sorted)].startIndex <= tok.startIndex THEN Append(sorted, tok)
    ELSE Append(InsertByStart(SubSeq(sorted, 1, Len(sorted) - 1), tok), sorted[Len(sorted)])
RECURSIVE SortByStart(_)
SortByStart(tokens) ==
    IF tokens = <<>> THEN <<>>
    ELSE InsertByStart(SortByStart(SubSeq(tokens, 1, Len(tokens) - 1)), tokens[Len(tokens)])

\* (mutation) the loop keeps a token that overlaps one already kept
DedupStepKeepBoth(result, token) == Append(result, token)

\* one iteration of the loop of deduplicateTokens
DedupStep(result, token) ==
    LET hits == {i \in 1..Len(result) : Overlaps(token, result[i])}
    IN IF hits = {} THEN Append(result, token)
       ELSE LET overlappingIndex == CHOOSE i \in hits : \A j \in hits : i <= j
            IN IF token.confidence > result[overlappingIndex].confidence
               THEN [result EXCEPT ![overlappingIndex] = token]
               ELSE result
RECURSIVE DedupFold(_, _)
DedupFold(result, tokens) ==
    IF tokens = <<>> THEN result
    ELSE DedupFold(DedupStep(result, Head(tokens)), Tail(tokens))
deduplicateTokens(tokens) == DedupFold(<<>>, SortByStart(tokens))

\* DEFAULT_DETECTION_CONFIG.  The patterns that cannot match a text over
\* Alphabet are listed by name; PatternAt has no match for them.
DefaultExclusions ==
    { <<"l", "o", "c", "a", "l", "h", "o", "s", "t">>,
      <<"1", "2", "7", ".", "0", ".", "0", ".", "1">>,
      <<"e", "x", "a", "m", "p", "l", "e", ".", "c", "o", "m">>,
      <<"t", "e", "s", "t", "@", "e", "x", "a", "m", "p", "l", "e", ".", "c", "o", "m">> }
DefaultMinLength == 8
DEFAULT_DETECTION_CONFIG ==
    [patterns |-> <<"API_KEY", "ACCESS_TOKEN", "SECRET_KEY", "BEARER_TOKEN", "JWT_TOKEN",
                    "PASSWORD", "EMAIL", "PHONE", "PRIVATE_IP", "UUID">>,
     minLength |-> DefaultMinLength,
     customPatterns |-> <<>>,
     exclusions |-> DefaultExclusions,
     caseSensitive |-> FALSE]

\* the DetectedToken pushed for a match whose value (in processedText) is given
MatchToken(cfg, type, text, match, value, confidence) ==
    [value |-> IF cfg.caseSensitive THEN value
               ELSE Slice(text, match.index, Min(Len(text), match.index + Len(value))),
     type |-> type,
     startIndex |-> match.index,
     endIndex |-> match.index + Len(value),
     confidence |-> confidence]

\* match[1] || match[0]
MatchValue(processedText, match) ==
    IF match.hasGroup /\ match.end > match.gstart
    THEN Slice(processedText, match.gstart, match.end)
    ELSE Slice(processedText, match.index, match.end)

\* the body of the exec loop over one catalogue pattern
PatternToken(cfg, name, text, match, value) ==
    IF Len(value) < cfg.minLength \/ ToLowerCase(value) \in cfg.exclusions THEN <<>>
    ELSE <<MatchToken(cfg, name, text, match, value, calculateConfidence(name, value))>>

\* the exec loop of detectTokens over one catalogue pattern
RECURSIVE ScanPattern(_, _, _, _, _)
ScanMatch(cfg, name, text, processedText, match) ==
    IF ~match.found THEN <<>>
    ELSE PatternToken(cfg, name, text, match, MatchValue(processedText, match))
             \o ScanPattern(cfg, name, text, processedText, match.end)
ScanPattern(cfg, name, text, processedText, lastIndex) ==
    ScanMatch(cfg, name, text, processedText, Exec(name, processedText, lastIndex))

\* the body of the exec loop over one custom pattern
CustomToken(cfg, text, match, value) ==
    IF Len(value) >= cfg.minLength
    THEN <<MatchToken(cfg, "CUSTOM", text, match, value, 70)>>
    ELSE <<>>

\* the exec loop of detectTokens over one custom pattern
RECURSIVE ScanCustom(_, _, _, _, _)
ScanCustomMatch(cfg, pattern, text, processedText, match) ==
    IF ~match.found THEN <<>>
    ELSE CustomToken(cfg, text, match, Slice(processedText, match.index, match.end))
             \o ScanCustom(cfg, pattern, text, processedText, match.end)
ScanCustom(cfg, pattern, text, processedText, lastIndex) ==
    ScanCustomMatch(cfg, pattern, text, processedText,
                    CustomExec(pattern, processedText, lastIndex))

RECURSIVE ScanAll(_, _, _, _)
ScanAll(cfg, names, text, processedText) ==
    IF names = <<>> THEN <<>>
    ELSE ScanPattern(cfg, Head(names), text, processedText, 0)
             \o ScanAll(cfg, Tail(names), text, processedText)
RECURSIVE ScanAllCustom(_, _, _, _)
ScanAllCustom(cfg, pats, text, processedText) ==
    IF pats = <<>> THEN <<>>
    ELSE ScanCustom(cfg, Head(pats), text, processedText, 0)
             \o ScanAllCustom(cfg, Tail(pats), text, processedText)

\* the candidates collected by detectTokens before deduplication
CandidatesIn(cfg, text, processedText) ==
    ScanAll(cfg, cfg.patterns, text, processedText)
        \o ScanAllCustom(cfg, cfg.customPatterns, text, processedText)
Candidates(cfg, text) ==
    CandidatesIn(cfg, text, IF cfg.caseSensitive THEN text ELSE ToLowerCase(text))

detectTokens(cfg, text) == deduplicateTokens(Candidates(cfg, text))

(***************************************************************************)
(* CryptoUtils                                                             *)
(***************************************************************************)
\* JavaScript `undefined` in an optional string field or argument
Undefined == <<"<undefined>">>
\* !x for an optional string: undefined and the empty string are falsy
Falsy(x) == x = Undefined \/ x = <<>>
\* a truthy argument whose typeof is not 'string' (a number, an object)
NotAString == <<"<not-a-string>">>
IsString(x) == x # NotAString
\* map ids are numbered from 1; 0 stands for the empty string and a negative
\* number for a truthy id that is not a string
ValidId(mapId) == mapId > 0

\* hashWithSalt: the digest of input + salt
hashWithSalt(input, salt) == ToString(<<"sha256", input \o salt>>)

\* generateProxyToken: prefix + leading characters of the digest
generateProxyToken(originalToken, salt, prefix) ==
    <<prefix, hashWithSalt(originalToken, salt)>>

\* createHmac: the base64 HMAC-SHA-256 of data under secret
createHmac(data, secret) == <<ToString(<<"hmac", data, secret>>)>>

\* String.prototype.charCodeAt for the characters of Alphabet
CharCodes ==
    [c \in Alphabet |->
        CASE c = "a" -> 97 [] c = "b" -> 98 [] c = "c" -> 99 [] c = "d" -> 100
          [] c = "p" -> 112 [] c = "w" -> 119 [] c = "A" -> 65 [] c = "=" -> 61
          [] c = "$" -> 36 [] c = "&" -> 38 [] c = "@" -> 64 [] c = "." -> 46
          [] c = " " -> 32]

\* the bitwise operators ^ and | on code units
RECURSIVE BitXor(_, _)
BitXor(x, y) ==
    IF x = 0 /\ y = 0 THEN 0
    ELSE (((x % 2) + (y % 2)) % 2) + 2 * BitXor(x \div 2, y \div 2)
RECURSIVE BitOr(_, _)
BitOr(x, y) ==
    IF x = 0 /\ y = 0 THEN 0
    ELSE (IF (x % 2) = 1 \/ (y % 2) = 1 THEN 1 ELSE 0) + 2 * BitOr(x \div 2, y \div 2)

\* a.charCodeAt(i) ^ b.charCodeAt(i); a unit outside Alphabet is an opaque run
\* of characters (a digest), and the XOR of two runs is 0 exactly when the
\* runs are the same
CodeXor(x, y) ==
    IF x \in Alphabet /\ y \in Alphabet THEN BitXor(CharCodes[x], CharCodes[y])
    ELSE IF x = y THEN 0 ELSE 1

\* (mutation) the loop assigns the XOR of the position instead of OR-ing it
RECURSIVE CompareFoldAssign(_, _, _, _)
CompareFoldAssign(a, b, i, result) ==
    IF i > Len(a) THEN result
    ELSE CompareFoldAssign(a, b, i + 1, CodeXor(a[i], b[i]))

\* constantTimeCompare: length test, then OR of the XOR of every position
RECURSIVE CompareFold(_, _, _, _)
CompareFold(a, b, i, result) ==
    IF i > Len(a) THEN result
    ELSE CompareFold(a, b, i + 1, BitOr(result, CodeXor(a[i], b[i])))
constantTimeCompare(a, b) ==
    IF Len(a) # Len(b) THEN FALSE ELSE CompareFold(a, b, 1, 0) = 0

\* (mutation) the expected HMAC is never computed from the data
verifyHmacIgnoresData(data, signature, secret) ==
    constantTimeCompare(signature, signature)

verifyHmac(data, signature, secret) ==
    constantTimeCompare(signature, createHmac(data, secret))

(***************************************************************************)
(* Strategies                                                              *)
(***************************************************************************)
\* HashSaltStrategy.anonymize: config.customSalt if set, else the instance salt
HashSaltAnonymize(token, cfg, instanceSalt) ==
    generateProxyToken(token,
                       IF Falsy(cfg.customSalt) THEN instanceSalt ELSE cfg.customSalt,
                       "anon_")

\* EmbeddingsStrategy.classifyTokenType on tokens shorter than 10 characters:
\* uuid, base64, hex, phone and apikey all need at least 10 characters
classifyTokenType(token) ==
    LET ok(c) == IsWordChar(c) \/ c \in {"-", "."}
        ats == {i \in 1..Len(token) : token[i] = "@"}
    IN IF /\ Cardinality(ats) = 1
          /\ \A i \in 1..Len(token) : i \in ats \/ ok(token[i])
          /\ ats \cap {1, Len(token)} = {}
       THEN "email"
       ELSE IF Len(token) >= 16 /\ \A i \in 1..Len(token) : ok(token[i])
       THEN "apikey"
       ELSE "generic"

\* EmbeddingsStrategy.calculateSimpleEntropy: rounded to two decimals
calculateSimpleEntropy(token) == (calculateEntropy(token) + 5) \div 10

\* EmbeddingsStrategy.extractTokenFeatures
extractTokenFeatures(token) ==
    [length |-> Min(Len(token), 100),
     hasNumbers |-> FALSE,
     hasSpecialChars |-> \E i \in 1..Len(token) : token[i] \in Alphabet \ Letters,
     isUpperCase |-> \A i \in 1..Len(token) : token[i] \notin Letters \ {"A"},
     isLowerCase |-> \A i \in 1..Len(token) : token[i] # "A",
     entropy |-> calculateSimpleEntropy(token),
     tokenType |-> classifyTokenType(token)]

SemanticSalt == <<"semantic_local-sentence-transformer_384">>
\* EmbeddingsStrategy.anonymize = generateSemanticProxy
EmbeddingsAnonymize(token) ==
    <<"sem_", hashWithSalt(<<ToString(extractTokenFeatures(token))>>, SemanticSalt)>>

StrategyAnonymize(token, cfg, instanceSalt) ==
    IF cfg.strategy = "hash-salt" THEN HashSaltAnonymize(token, cfg, instanceSalt)
    ELSE EmbeddingsAnonymize(token)

(***************************************************************************)
(* JavaScript Map: a sequence of [key, value] in insertion order           *)
(***************************************************************************)
MapKeys(m) == {m[i].key : i \in 1..Len(m)}
MapHas(m, k) == k \in MapKeys(m)
MapIndex(m, k) == CHOOSE i \in 1..Len(m) : m[i].key = k
MapGet(m, k) == m[MapIndex(m, k)].value
\* (mutation) set keeps the value of a key that is already present
MapSetKeepFirst(m, k, v) ==
    IF MapHas(m, k) THEN m ELSE Append(m, [key |-> k, value |-> v])

MapSet(m, k, v) ==
    IF MapHas(m, k) THEN [m EXCEPT ![MapIndex(m, k)].value = v]
    ELSE Append(m, [key |-> k, value |-> v])
MapDelete(m, k) ==
    IF MapHas(m, k)
    THEN SubSeq(m, 1, MapIndex(m, k) - 1) \o SubSeq(m, MapIndex(m, k) + 1, Len(m))
    ELSE m
\* Array.from(map.entries())
MapEntries(m) == [i \in 1..Len(m) |-> <<m[i].key, m[i].value>>]

(***************************************************************************)
(* MemoryStorage                                                           *)
(***************************************************************************)
DefaultMaxSize == 10000
DefaultTtlMs == 3600000

\* (mutation) at capacity the newest key is evicted
MemStoreEvictNewest(table, cap, mapId, mappingData, t) ==
    LET evicted == IF Len(table) >= cap /\ ~MapHas(table, mapId)
                   THEN (IF Len(table) > 0 THEN MapDelete(table, table[Len(table)].key)
                         ELSE table)
                   ELSE table
    IN MapSet(evicted, mapId, [mappingData EXCEPT !.createdAt = t])

\* (mutation) the capacity check does not ask whether the id is present
MemStoreIgnoresPresence(table, cap, mapId, mappingData, t) ==
    LET evicted == IF Len(table) >= cap
                   THEN (IF Len(table) > 0 THEN MapDelete(table, table[1].key) ELSE table)
                   ELSE table
    IN MapSet(evicted, mapId, [mappingData EXCEPT !.createdAt = t])

\* (mutation) store never evicts
MemStoreNoEvict(table, cap, mapId, mappingData, t) ==
    MapSet(table, mapId, [mappingData EXCEPT !.createdAt = t])

\* store: evict the first key when full and the id is new, then set
MemStore(table, cap, mapId, mappingData, t) ==
    LET evicted == IF Len(table) >= cap /\ ~MapHas(table, mapId)
                   THEN (IF Len(table) > 0 THEN MapDelete(table, table[1].key) ELSE table)
                   ELSE table
    IN MapSet(evicted, mapId, [mappingData EXCEPT !.createdAt = t])

\* (mutation) an entry expires when its age reaches the TTL
ExpiredAtTtl(data, ttl, t) == ttl > 0 /\ t - data.createdAt >= ttl

\* the TTL test of retrieve and cleanup
Expired(data, ttl, t) == ttl > 0 /\ t - data.createdAt > ttl

\* retrieve: absent, or expired (removed, absent), or the stored data
MemRetrieveFound(table, ttl, mapId, t) ==
    MapHas(table, mapId) /\ ~Expired(MapGet(table, mapId), ttl, t)
\* (mutation) retrieve removes the entry it returns
MemRetrieveTableConsume(table, ttl, mapId, t) == MapDelete(table, mapId)

MemRetrieveTable(table, ttl, mapId, t) ==
    IF MapHas(table, mapId) /\ Expired(MapGet(table, mapId), ttl, t)
    THEN MapDelete(table, mapId)
    ELSE table

\* (mutation) cleanup deletes the keys that have not expired
RECURSIVE MemCleanupInverted(_, _, _)
MemCleanupInverted(table, ttl, t) ==
    IF ttl <= 0 \/ table = <<>> THEN table
    ELSE IF ~Expired(Head(table).value, ttl, t) THEN MemCleanupInverted(Tail(table), ttl, t)
    ELSE <<Head(table)>> \o MemCleanupInverted(Tail(table), ttl, t)

\* cleanup: delete every expired key
RECURSIVE MemCleanup(_, _, _)
MemCleanup(table, ttl, t) ==
    IF ttl <= 0 \/ table = <<>> THEN table
    ELSE IF Expired(Head(table).value, ttl, t) THEN MemCleanup(Tail(table), ttl, t)
    ELSE <<Head(table)>> \o MemCleanup(Tail(table), ttl, t)

(***************************************************************************)
(* AnonEngine: the computations of anonymize and deanonymize               *)
(***************************************************************************)
\* (mutation) the loop of anonymize runs over the tokens from left to right
SortAscending(tokens) == SortByStart(tokens)

\* detectedTokens.sort((a, b) => b.startIndex - a.startIndex)
RECURSIVE InsertByStartDesc(_, _)
InsertByStartDesc(sorted, tok) ==
    IF sorted = <<>> THEN <<tok>>
    ELSE IF sorted[Len(sorted)].startIndex >= tok.startIndex THEN Append(sorted, tok)
    ELSE Append(InsertByStartDesc(SubSeq(sorted, 1, Len(sorted) - 1), tok),
                sorted[Len(sorted)])
RECURSIVE SortByStartDesc(_)
SortByStartDesc(tokens) ==
    IF tokens = <<>> THEN <<>>
    ELSE InsertByStartDesc(SortByStartDesc(SubSeq(tokens, 1, Len(tokens) - 1)),
                           tokens[Len(tokens)])

\* one iteration of the loop of anonymize: record the pair, splice the proxy in
SubstituteOne(acc, token, proxyToken) ==
    [mappings |-> MapSet(acc.mappings, proxyToken, token.value),
     anonymizedPrompt |-> Splice(acc.anonymizedPrompt, token.startIndex, token.endIndex,
                                 proxyToken)]

\* the loop of anonymize over sortedTokens: [mappings, anonymizedPrompt]
RECURSIVE SubstituteTokens(_, _, _, _)
SubstituteTokens(acc, sortedTokens, cfg, instanceSalt) ==
    IF sortedTokens = <<>> THEN acc
    ELSE SubstituteTokens(
             SubstituteOne(acc, Head(sortedTokens),
                           StrategyAnonymize(Head(sortedTokens).value, cfg, instanceSalt)),
             Tail(sortedTokens), cfg, instanceSalt)

\* `${mapId}:${JSON.stringify(Array.from(mappings.entries()))}`
DataToSign(mapId, entries) == <<mapId, ":", MapEntries(entries)>>

\* the stored MappingData and the AnonymizationResult
AnonymizeResult(cfg, mapId, t, entries, anonPrompt, storedSignature, signature) ==
    [mappingData |-> [id |-> mapId, mappings |-> entries, createdAt |-> t,
                      signature |-> storedSignature, strategy |-> cfg.strategy],
     anonPrompt |-> anonPrompt,
     signature |-> signature]

\* anonymize once the loop has run: sign the entries when signatures are on
AnonymizeSigned(cfg, mapId, t, sub, sig) ==
    AnonymizeResult(cfg, mapId, t, sub.mappings, sub.anonymizedPrompt, sig, sig)
AnonymizeSubstituted(cfg, mapId, t, sub) ==
    AnonymizeSigned(cfg, mapId, t, sub,
                    IF cfg.enableSignatures
                    THEN createHmac(DataToSign(mapId, sub.mappings), cfg.signatureSecret)
                    ELSE Undefined)

\* anonymize(prompt) with the id that generateId returns.  Without detected
\* tokens the stored emptyMapping has no signature field, and the returned
\* signature is the HMAC of `${mapId}:${prompt}`
AnonymizeCompute(cfg, instanceSalt, prompt, detectedTokens, mapId, t) ==
    IF Len(detectedTokens) = 0
    THEN AnonymizeResult(cfg, mapId, t, <<>>, prompt, Undefined,
                         IF cfg.enableSignatures
                         THEN createHmac(<<mapId, ":", prompt>>, cfg.signatureSecret)
                         ELSE Undefined)
    ELSE AnonymizeSubstituted(cfg, mapId, t,
             SubstituteTokens([mappings |-> <<>>, anonymizedPrompt |-> prompt],
                              SortByStartDesc(detectedTokens), cfg, instanceSalt))

\* GetSubstitution of String.prototype.replace for a pattern without groups:
\* "$$" gives "$", "$&" the match, "$" + apostrophe the text after the match
\* (the backquote of the fourth pattern is not a character of Alphabet)
RECURSIVE ExpandReplacement(_, _, _, _)
ExpandReplacement(repl, matched, before, after) ==
    IF repl = <<>> THEN <<>>
    ELSE IF Head(repl) = "$" /\ Len(repl) >= 2 /\ repl[2] \in {"$", "&", "'"}
    THEN (CASE repl[2] = "$" -> <<"$">>
            [] repl[2] = "&" -> matched
            [] OTHER -> after)
         \o ExpandReplacement(SubSeq(repl, 3, Len(repl)), matched, before, after)
    ELSE <<Head(repl)>> \o ExpandReplacement(Tail(repl), matched, before, after)

\* str.replace(new RegExp(escapeRegExp(proxyToken), 'g'), originalToken)
RECURSIVE ReplaceFrom(_, _, _, _)
ReplaceFrom(str, i, proxyToken, originalToken) ==
    LET n == Len(proxyToken)
    IN IF i >= Len(str) THEN <<>>
       ELSE IF n > 0 /\ i + n <= Len(str) /\ Slice(str, i, i + n) = proxyToken
       THEN ExpandReplacement(originalToken, proxyToken, Slice(str, 0, i),
                              Slice(str, i + n, Len(str)))
            \o ReplaceFrom(str, i + n, proxyToken, originalToken)
       ELSE <<CharAt(str, i)>> \o ReplaceFrom(str, i + 1, proxyToken, originalToken)
ReplaceAll(str, proxyToken, originalToken) == ReplaceFrom(str, 0, proxyToken, originalToken)

\* the replacement loop of deanonymize over mappings.entries()
RECURSIVE RestoreTokens(_, _)
RestoreTokens(output, entries) ==
    IF entries = <<>> THEN output
    ELSE RestoreTokens(ReplaceAll(output, Head(entries).key, Head(entries).value),
                       Tail(entries))

\* (mutation) a signature argument is compared with the stored signature
\* whenever one is supplied
VerifyAndRestoreChecksGiven(cfg, mappingData, output, mapId, signature) ==
    IF (cfg.enableSignatures \/ ~Falsy(signature)) /\ signature # mappingData.signature
    THEN [outcome |-> "SignatureError",
          msg |-> "Invalid signature - mapping may have been tampered with", text |-> <<>>]
    ELSE [outcome |-> "ok", msg |-> "", text |-> RestoreTokens(output, mappingData.mappings)]

\* (mutation) the error of a failed signature comparison quotes the stored
\* pairs
VerifyAndRestoreQuotesPairs(cfg, mappingData, output, mapId, signature) ==
    IF cfg.enableSignatures /\ signature # mappingData.signature
    THEN [outcome |-> "SignatureError",
          msg |-> "Invalid signature for " \o ToString(mappingData.mappings),
          text |-> <<>>]
    ELSE [outcome |-> "ok", msg |-> "", text |-> RestoreTokens(output, mappingData.mappings)]

\* deanonymize after the record is retrieved: the signature checks, then
\* the replacement of every proxy
VerifyAndRestore(cfg, mappingData, output, mapId, signature) ==
    IF cfg.enableSignatures /\ Falsy(signature)
    THEN [outcome |-> "SignatureError",
          msg |-> "Signature is required when signatures are enabled", text |-> <<>>]
    ELSE IF cfg.enableSignatures /\ Falsy(mappingData.signature)
    THEN [outcome |-> "SignatureError",
          msg |-> "Stored mapping does not have a signature", text |-> <<>>]
    ELSE IF cfg.enableSignatures /\ ~constantTimeCompare(signature, mappingData.signature)
    THEN [outcome |-> "SignatureError",
          msg |-> "Invalid signature - mapping may have been tampered with", text |-> <<>>]
    ELSE IF cfg.enableSignatures
            /\ ~verifyHmac(DataToSign(mapId, mappingData.mappings), mappingData.signature,
                           cfg.signatureSecret)
    THEN [outcome |-> "SignatureError",
          msg |-> "Mapping data signature verification failed", text |-> <<>>]
    ELSE IF Len(mappingData.mappings) = 0
    THEN [outcome |-> "ok", msg |-> "", text |-> output]
    ELSE [outcome |-> "ok", msg |-> "", text |-> RestoreTokens(output, mappingData.mappings)]

\* (mutation) the caller's signature is required before the record is looked up
DeanonymizeComputeSignatureFirst(cfg, found, mappingData, output, mapId, signature) ==
    IF Falsy(output) \/ ~IsString(output)
    THEN [outcome |-> "ValidationError", msg |-> "Output must be a non-empty string",
          text |-> <<>>]
    ELSE IF ~ValidId(mapId)
    THEN [outcome |-> "ValidationError", msg |-> "Map ID must be a non-empty string",
          text |-> <<>>]
    ELSE IF cfg.enableSignatures /\ Falsy(signature)
    THEN [outcome |-> "SignatureError",
          msg |-> "Signature is required when signatures are enabled", text |-> <<>>]
    ELSE IF ~found
    THEN [outcome |-> "ValidationError",
          msg |-> "Mapping not found for ID: " \o ToString(mapId), text |-> <<>>]
    ELSE VerifyAndRestore(cfg, mappingData, output, mapId, signature)

\* deanonymize(output, mapId, signature) against the retrieved record
\* (found = FALSE when storage.retrieve returned null)
DeanonymizeCompute(cfg, found, mappingData, output, mapId, signature) ==
    IF Falsy(output) \/ ~IsString(output)
    THEN [outcome |-> "ValidationError", msg |-> "Output must be a non-empty string",
          text |-> <<>>]
    ELSE IF ~ValidId(mapId)
    THEN [outcome |-> "ValidationError", msg |-> "Map ID must be a non-empty string",
          text |-> <<>>]
    ELSE IF ~found
    THEN [outcome |-> "ValidationError",
          msg |-> "Mapping not found for ID: " \o ToString(mapId), text |-> <<>>]
    ELSE VerifyAndRestore(cfg, mappingData, output, mapId, signature)

(***************************************************************************)
(* State                                                                   *)
(***************************************************************************)
VARIABLES
    config,           \* AnonEngine.config
    instanceSalt,     \* the salt held by the HashSaltStrategy instance
    detector,         \* TokenDetector.config
    mappings,         \* MemoryStorage.mappings
    maxSize,          \* MemoryStorage.maxSize
    ttlMs,            \* MemoryStorage.ttlMs
    cleanupInterval,  \* MemoryStorage.cleanupInterval is set
    timers,           \* number of live setInterval timers of the storage
    now,              \* Date.now()
    ticks,            \* number of clock advances so far
    nextId,           \* the next id CryptoUtils.generateId returns
    issued,           \* the AnonymizationResult of every completed anonymize
    deleted,          \* issued ids for which deleteMapping has completed
    detected,         \* the value returned by the last direct detectTokens call
    constructed,      \* new AnonEngine(config) has returned an engine
    pending,          \* the calls suspended at an await
    vault,            \* VaultStorage.vault holds a client (is not null)
    isInitialized,    \* VaultStorage.isInitialized
    last              \* the last operation, its arguments and its outcome

vars == <<config, instanceSalt, detector, mappings, maxSize, ttlMs, cleanupInterval,
          timers, now, ticks, nextId, issued, deleted, detected, constructed, pending,
          vault, isInitialized, last>>

engineVars == <<config, instanceSalt, detector, nextId, issued, deleted, detected,
                constructed, pending>>
storageVars == <<mappings, maxSize, ttlMs, cleanupInterval, timers>>
vaultVars == <<vault, isInitialized>>

(***************************************************************************)
(* Inputs                                                                  *)
(***************************************************************************)
Secret == <<"test-secret-key">>
GeneratedSalt == <<"generated-salt">>
CustomSalt == <<"new-salt">>
WrongSignature == <<"w", "r", "o", "n", "g">>
EvilText == <<"d", "d">>
AttackerSecret == <<"attacker-secret">>

\* no detectable token
PromptPlain == <<"a", "b", " ", "c">>
\* PASSWORD whose detected span contains "$$"
PromptDollar == <<"p", "w", "d", "=", "$", "$", "a", "b", "c", "a", "b", "c", "a", "b">>
\* two EMAIL tokens with the same features
PromptEmails == <<"a", "b", "@", "c", "d", ".", "p", "w", " ",
                  "b", "a", "@", "d", "c", ".", "w", "p">>
\* PASSWORD and EMAIL candidates that overlap
PromptOverlap == <<"p", "w", "d", "=", "a", "b", "@", "c", "d", ".", "a", "b", "c", "d">>
\* a PASSWORD candidate, a custom candidate inside it, and an EMAIL candidate
\* that starts after the custom one and overlaps the PASSWORD one
PromptHole == <<"p", "w", "d", "=", "a", "b", "$", "a", "b", "@", "c", "d", ".",
                "a", "b", "c", "d", "p", "w", "a", "b">>
\* an EMAIL token, and before it a PASSWORD token whose span holds the
\* Hash+Salt proxy of that EMAIL token under the instance salt (text that
\* an earlier anonymize of the same engine returned)
EmailToken == <<"a", "b", "@", "c", "d", ".", "p", "w">>
PromptNested ==
    <<"p", "w", "d", "=">> \o generateProxyToken(EmailToken, GeneratedSalt, "anon_")
        \o <<"a", "b", "c", "d", "a", "b", " ">> \o EmailToken
Prompts == {PromptPlain, PromptDollar}
\* prompts with two tokens
OrderPrompts == {PromptEmails, PromptNested}

\* tokenDetector.detectTokens(prompt) of the engine's detector (default config)
Detected ==
    [p \in Prompts \cup OrderPrompts |-> detectTokens(DEFAULT_DETECTION_CONFIG, p)]

PlainOutput == <<"c", " ", "a">>

Issued(mapId) == mapId \in 1..Len(issued)
\* the signatures tried on deanonymize for a map id: none, a wrong one, the
\* one anonymize returned for that id, the one stored under that id
Signatures(mapId) ==
    {Undefined, WrongSignature}
        \cup (IF Issued(mapId) THEN {issued[mapId].signature} ELSE {})
        \cup (IF MapHas(mappings, mapId) THEN {MapGet(mappings, mapId).signature} ELSE {})
\* the <<output, signature>> pairs tried on deanonymize for a map id: a
\* response without proxies or the anonymized prompt returned for that id,
\* with every signature; an empty output and an output that is not a string
DeanonymizeArgs(mapId) ==
    (({PlainOutput} \cup (IF Issued(mapId) THEN {issued[mapId].anonPrompt} ELSE {}))
         \X Signatures(mapId))
        \cup ({<<>>, NotAString}
                 \X {IF Issued(mapId) THEN issued[mapId].signature ELSE Undefined})
\* 0 stands for the empty map id, MaxIds + 1 is never generated
MapIds == 0..(MaxIds + 1)
\* the ids a caller can name: a non-string, the empty id, the ids anonymize has
\* returned, and
\* MaxIds + 1 (a caller cannot name an id that generateId has yet to draw)
KnownIds == {0 - 1, 0, MaxIds + 1} \cup (1..Len(issued))

NoData == [id |-> 0, mappings |-> <<>>, createdAt |-> 0, signature |-> Undefined,
           strategy |-> "hash-salt"]
NoLast == [op |-> "none", output |-> <<>>, mapId |-> 0, signature |-> Undefined,
           outcome |-> "ok", msg |-> "", text |-> <<>>, found |-> FALSE, data |-> NoData,
           evicted |-> {}, ids |-> <<>>, total |-> 0, request |-> <<>>, health |-> <<>>]

(***************************************************************************)
(* new AnonEngine(config) with the Memory backend                          *)
(***************************************************************************)
EngineConfigs ==
    {[strategy |-> s, storage |-> "memory", enableSignatures |-> e,
      signatureSecret |-> IF e THEN Secret ELSE Undefined,
      enableLogging |-> FALSE, customSalt |-> Undefined] :
         s \in {"hash-salt", "embeddings"}, e \in BOOLEAN}

Init ==
    /\ config \in EngineConfigs
    /\ instanceSalt = GeneratedSalt
    /\ detector = DEFAULT_DETECTION_CONFIG
    /\ mappings = <<>>
    /\ maxSize = DefaultMaxSize
    /\ ttlMs = DefaultTtlMs
    /\ cleanupInterval = TRUE
    /\ timers = 1
    /\ now = 0
    /\ ticks = 0
    /\ nextId = 1
    /\ issued = <<>>
    /\ deleted = {}
    /\ detected = <<>>
    /\ constructed = TRUE
    /\ pending = <<>>
    /\ vault = FALSE
    /\ isInitialized = FALSE
    /\ last = NoLast

(***************************************************************************)
(* AnonEngine operations                                                   *)
(***************************************************************************)
TokenValues(tokens) == [i \in 1..Len(tokens) |-> tokens[i].value]

\* the record kept of a completed anonymize
IssuedRecord(prompt, detectedTokens, r, t) ==
    [prompt |-> prompt, anonPrompt |-> r.anonPrompt, mapId |-> r.mappingData.id,
     signature |-> r.signature, entries |-> r.mappingData.mappings,
     tokens |-> TokenValues(detectedTokens), at |-> t]

\* anonymize after validation, with the result r computed for the drawn id
AnonymizeStore(prompt, detectedTokens, r) ==
    /\ mappings' = MemStore(mappings, maxSize, nextId, r.mappingData, now)
    /\ issued' = Append(issued, IssuedRecord(prompt, detectedTokens, r, now))
    /\ last' = [NoLast EXCEPT !.op = "anonymize", !.output = prompt,
                              !.mapId = nextId, !.signature = r.signature,
                              !.text = r.anonPrompt,
                              !.evicted = MapKeys(mappings) \ MapKeys(mappings')]
    /\ nextId' = nextId + 1
    /\ UNCHANGED <<vaultVars, config, instanceSalt, detector, deleted, detected, constructed, pending,
                   maxSize, ttlMs, cleanupInterval, timers, now, ticks>>

Anonymize(isString, prompt) ==
    IF ~isString \/ prompt = <<>>
    THEN /\ last' = [NoLast EXCEPT !.op = "anonymize", !.output = prompt,
                                   !.outcome = "ValidationError",
                                   !.msg = "Prompt must be a non-empty string"]
         /\ UNCHANGED <<vaultVars, engineVars, storageVars, now, ticks>>
    ELSE /\ nextId <= MaxIds
         /\ AnonymizeStore(prompt, Detected[prompt],
                           AnonymizeCompute(config, instanceSalt, prompt, Detected[prompt],
                                            nextId, now))

\* deanonymize with the record that storage.retrieve returned
DeanonymizeRetrieved(output, mapId, signature, validated, found, r) ==
    /\ mappings' = IF validated THEN MemRetrieveTable(mappings, ttlMs, mapId, now)
                   ELSE mappings
    /\ last' = [NoLast EXCEPT !.op = "deanonymize", !.output = output, !.mapId = mapId,
                              !.signature = signature, !.outcome = r.outcome,
                              !.msg = r.msg, !.text = r.text, !.found = found]
    /\ UNCHANGED <<vaultVars, engineVars, maxSize, ttlMs, cleanupInterval, timers, now, ticks>>

\* whether deanonymize reaches storage.retrieve and gets a record
RetrieveFinds(output, mapId) ==
    /\ ~Falsy(output)
    /\ IsString(output)
    /\ ValidId(mapId)
    /\ MemRetrieveFound(mappings, ttlMs, mapId, now)

\* (mutation) storage.retrieve is called before the output is validated
DeanonymizeRetrievesFirst(output, mapId, signature) ==
    DeanonymizeRetrieved(output, mapId, signature, ValidId(mapId),
        RetrieveFinds(output, mapId),
        DeanonymizeCompute(config, RetrieveFinds(output, mapId),
                           IF RetrieveFinds(output, mapId) THEN MapGet(mappings, mapId)
                           ELSE NoData,
                           output, mapId, signature))

Deanonymize(output, mapId, signature) ==
    DeanonymizeRetrieved(output, mapId, signature,
        ~Falsy(output) /\ IsString(output) /\ ValidId(mapId),
        RetrieveFinds(output, mapId),
        DeanonymizeCompute(config, RetrieveFinds(output, mapId),
                           IF RetrieveFinds(output, mapId) THEN MapGet(mappings, mapId)
                           ELSE NoData,
                           output, mapId, signature))

\* (mutation) deleteMapping validates the id and never calls storage.delete
DeleteMappingSkipsStorage(mapId) ==
    IF ~ValidId(mapId)
    THEN /\ last' = [NoLast EXCEPT !.op = "deleteMapping", !.mapId = mapId,
                                   !.outcome = "ValidationError",
                                   !.msg = "Map ID must be a non-empty string"]
         /\ UNCHANGED <<vaultVars, engineVars, storageVars, now, ticks>>
    ELSE /\ deleted' = deleted \cup ({mapId} \cap (1..Len(issued)))
         /\ last' = [NoLast EXCEPT !.op = "deleteMapping", !.mapId = mapId,
                                   !.found = MapHas(mappings, mapId)]
         /\ UNCHANGED <<vaultVars, config, instanceSalt, detector, nextId, issued, detected,
                        constructed, pending, storageVars, now, ticks>>

\* (mutation) deleteMapping of an id without a stored mapping is an error
DeleteMappingRejectsAbsent(mapId) ==
    IF ~ValidId(mapId) \/ ~MapHas(mappings, mapId)
    THEN /\ last' = [NoLast EXCEPT !.op = "deleteMapping", !.mapId = mapId,
                                   !.outcome = IF ValidId(mapId) THEN "StorageError"
                                               ELSE "ValidationError",
                                   !.msg = "Map ID must be a non-empty string"]
         /\ UNCHANGED <<vaultVars, engineVars, storageVars, now, ticks>>
    ELSE /\ mappings' = MapDelete(mappings, mapId)
         /\ deleted' = deleted \cup ({mapId} \cap (1..Len(issued)))
         /\ last' = [NoLast EXCEPT !.op = "deleteMapping", !.mapId = mapId,
                                   !.found = TRUE]
         /\ UNCHANGED <<vaultVars, config, instanceSalt, detector, nextId, issued, detected,
                        constructed, pending, maxSize, ttlMs, cleanupInterval, timers,
                        now, ticks>>

\* deleteMapping(mapId); found records whether the id was stored before the call
DeleteMapping(mapId) ==
    IF ~ValidId(mapId)
    THEN /\ last' = [NoLast EXCEPT !.op = "deleteMapping", !.mapId = mapId,
                                   !.outcome = "ValidationError",
                                   !.msg = "Map ID must be a non-empty string"]
         /\ UNCHANGED <<vaultVars, engineVars, storageVars, now, ticks>>
    ELSE /\ mappings' = MapDelete(mappings, mapId)
         /\ deleted' = deleted \cup ({mapId} \cap (1..Len(issued)))
         /\ last' = [NoLast EXCEPT !.op = "deleteMapping", !.mapId = mapId,
                                   !.found = MapHas(mappings, mapId)]
         /\ UNCHANGED <<vaultVars, config, instanceSalt, detector, nextId, issued, detected,
                        constructed, pending, maxSize, ttlMs, cleanupInterval, timers,
                        now, ticks>>

\* the argument of updateConfig: keys holds the properties that are present
\* (not undefined).  TypeScript admits enableLogging and customSalt; a
\* JavaScript caller can pass any property
UpdateRequests ==
    {[keys |-> K, enableLogging |-> TRUE, customSalt |-> CustomSalt,
      signatureSecret |-> Undefined] :
         K \in SUBSET {"enableLogging", "customSalt", "signatureSecret"}}
SaltUpdate ==
    [keys |-> {"customSalt"}, enableLogging |-> TRUE, customSalt |-> CustomSalt,
     signatureSecret |-> Undefined]

\* (mutation) updateConfig copies every property of its argument
UpdateConfigCopiesAll(newConfig) ==
    /\ config' = [config EXCEPT
                      !.enableLogging = IF "enableLogging" \in newConfig.keys
                                        THEN newConfig.enableLogging ELSE @,
                      !.customSalt = IF "customSalt" \in newConfig.keys
                                     THEN newConfig.customSalt ELSE @,
                      !.signatureSecret = IF "signatureSecret" \in newConfig.keys
                                          THEN newConfig.signatureSecret ELSE @]
    /\ instanceSalt' = IF "customSalt" \in newConfig.keys /\ config.strategy = "hash-salt"
                       THEN newConfig.customSalt ELSE instanceSalt
    /\ last' = [NoLast EXCEPT !.op = "updateConfig", !.request = newConfig]
    /\ UNCHANGED <<vaultVars, detector, nextId, issued, deleted, detected, constructed, pending,
                   storageVars, now, ticks>>

\* updateConfig(newConfig): sets config.enableLogging and config.customSalt
\* when given and, under Hash+Salt, the salt of the strategy instance; every
\* other property of the argument is ignored
UpdateConfig(newConfig) ==
    /\ config' = [config EXCEPT
                      !.enableLogging = IF "enableLogging" \in newConfig.keys
                                        THEN newConfig.enableLogging ELSE @,
                      !.customSalt = IF "customSalt" \in newConfig.keys
                                     THEN newConfig.customSalt ELSE @]
    /\ instanceSalt' = IF "customSalt" \in newConfig.keys /\ config.strategy = "hash-salt"
                       THEN newConfig.customSalt ELSE instanceSalt
    /\ last' = [NoLast EXCEPT !.op = "updateConfig", !.request = newConfig]
    /\ UNCHANGED <<vaultVars, detector, nextId, issued, deleted, detected, constructed, pending,
                   storageVars, now, ticks>>

\* (mutation) dispose starts the sweep timer when none is running
DisposeRestartsTimer ==
    /\ timers' = IF cleanupInterval THEN timers - 1 ELSE timers + 1
    /\ cleanupInterval' = ~cleanupInterval
    /\ mappings' = <<>>
    /\ last' = [NoLast EXCEPT !.op = "dispose", !.found = cleanupInterval]
    /\ UNCHANGED <<vaultVars, engineVars, maxSize, ttlMs, now, ticks>>

\* AnonEngine.dispose -> MemoryStorage.dispose; found records whether the
\* sweep timer was running before the call
Dispose ==
    /\ timers' = IF cleanupInterval THEN timers - 1 ELSE timers
    /\ cleanupInterval' = FALSE
    /\ mappings' = <<>>
    /\ last' = [NoLast EXCEPT !.op = "dispose", !.found = cleanupInterval]
    /\ UNCHANGED <<vaultVars, engineVars, maxSize, ttlMs, now, ticks>>

\* the setInterval callback: cleanup()
Sweep ==
    /\ timers > 0
    /\ mappings' = MemCleanup(mappings, ttlMs, now)
    /\ last' = [NoLast EXCEPT !.op = "sweep"]
    /\ UNCHANGED <<vaultVars, engineVars, maxSize, ttlMs, cleanupInterval, timers, now, ticks>>

\* the clock advances by d milliseconds
Tick(d) ==
    /\ ticks < MaxTicks
    /\ now' = now + d
    /\ ticks' = ticks + 1
    /\ last' = [NoLast EXCEPT !.op = "tick"]
    /\ UNCHANGED <<vaultVars, engineVars, storageVars>>

Next ==
    \/ \E isString \in BOOLEAN :
           \E prompt \in (IF isString THEN Prompts \cup {<<>>} ELSE {<<>>}) :
               Anonymize(isString, prompt)
    \/ \E mapId \in KnownIds : \E args \in DeanonymizeArgs(mapId) :
           Deanonymize(args[1], mapId, args[2])
    \/ \E mapId \in KnownIds : DeleteMapping(mapId)
    \/ \E newConfig \in {SaltUpdate} : UpdateConfig(newConfig)
    \/ Dispose
    \/ Sweep
    \/ Tick(DefaultTtlMs + 1)

Spec == Init /\ [][Next]_vars

(***************************************************************************)
(* new AnonEngine(config) as a step, then the life of the engine           *)
(***************************************************************************)
\* the defaults of the constructor
DefaultEngineConfig ==
    [strategy |-> "hash-salt", storage |-> "memory", enableSignatures |-> FALSE,
     signatureSecret |-> Undefined, enableLogging |-> FALSE, customSalt |-> Undefined]

\* the config argument of the constructor (Memory backend or an unknown one)
ConstructRequests ==
    {[strategy |-> s, storage |-> b, enableSignatures |-> e, signatureSecret |-> k,
      enableLogging |-> FALSE, customSalt |-> c] :
         s \in {"hash-salt", "embeddings", "invalid"}, b \in {"memory", "invalid"},
         e \in BOOLEAN, k \in {Undefined, <<>>, Secret}, c \in {Undefined, CustomSalt}}

\* validateConfig: the message of the ValidationError, or "" when valid
validateConfig(cfg) ==
    IF cfg.enableSignatures /\ Falsy(cfg.signatureSecret)
    THEN "Signature secret is required when enableSignatures is true"
    ELSE IF cfg.strategy \notin {"hash-salt", "embeddings"}
    THEN "Invalid anonymization strategy: " \o cfg.strategy
    ELSE IF cfg.storage \notin {"memory", "vault"}
    THEN "Invalid storage backend: " \o cfg.storage
    ELSE ""

\* new AnonEngine(request): on a ValidationError no engine exists
Construct(request) ==
    /\ ~constructed
    /\ IF validateConfig(request) # ""
       THEN /\ last' = [NoLast EXCEPT !.op = "construct", !.request = request,
                                      !.outcome = "ValidationError",
                                      !.msg = validateConfig(request)]
            /\ UNCHANGED <<vaultVars, engineVars, storageVars, now, ticks>>
       ELSE /\ config' = request
            /\ constructed' = TRUE
            /\ instanceSalt' = IF Falsy(request.customSalt) THEN GeneratedSalt
                               ELSE request.customSalt
            /\ cleanupInterval' = (ttlMs > 0)
            /\ timers' = IF ttlMs > 0 THEN timers + 1 ELSE timers
            /\ last' = [NoLast EXCEPT !.op = "construct", !.request = request]
            /\ UNCHANGED <<vaultVars, detector, nextId, issued, deleted, detected, pending, mappings,
                           maxSize, ttlMs, now, ticks>>

InitConfig ==
    /\ config = DefaultEngineConfig
    /\ instanceSalt = GeneratedSalt
    /\ detector = DEFAULT_DETECTION_CONFIG
    /\ mappings = <<>>
    /\ maxSize = DefaultMaxSize
    /\ ttlMs = DefaultTtlMs
    /\ cleanupInterval = FALSE
    /\ timers = 0
    /\ now = 0
    /\ ticks = 0
    /\ nextId = 1
    /\ issued = <<>>
    /\ deleted = {}
    /\ detected = <<>>
    /\ constructed = FALSE
    /\ pending = <<>>
    /\ vault = FALSE
    /\ isInitialized = FALSE
    /\ last = NoLast

NextConfig ==
    \/ \E request \in ConstructRequests : Construct(request)
    \/ constructed /\ \E newConfig \in UpdateRequests : UpdateConfig(newConfig)
    \/ constructed /\ \E prompt \in {PromptPlain} : Anonymize(TRUE, prompt)
    \/ constructed /\ Dispose

SpecConfig == InitConfig /\ [][NextConfig]_vars

(***************************************************************************)
(* anonymize calls that interleave at their await points: each await of    *)
(* strategy.anonymize in the loop, and the await of storage.store          *)
(***************************************************************************)
ConcurrentPrompts == {PromptPlain, PromptDollar, PromptEmails}
ConcurrentDetected ==
    [p \in ConcurrentPrompts |-> detectTokens(DEFAULT_DETECTION_CONFIG, p)]

\* the locals of one call: pc is "proxy" while the call awaits
\* strategy.anonymize for Head(tokens), "stored" while it awaits storage.store
NewCall(prompt, sortedTokens) ==
    [prompt |-> prompt, pc |-> "proxy", tokens |-> sortedTokens,
     acc |-> [mappings |-> <<>>, anonymizedPrompt |-> prompt],
     proxy |-> StrategyAnonymize(Head(sortedTokens).value, config, instanceSalt),
     result |-> AnonymizeResult(config, 0, 0, <<>>, <<>>, Undefined, Undefined)]
StoredCall(prompt, r) ==
    [prompt |-> prompt, pc |-> "stored", tokens |-> <<>>,
     acc |-> [mappings |-> r.mappingData.mappings, anonymizedPrompt |-> r.anonPrompt],
     proxy |-> Undefined, result |-> r]
NextToken(call, acc) ==
    [call EXCEPT !.acc = acc, !.tokens = Tail(call.tokens),
                 !.proxy = StrategyAnonymize(call.tokens[2].value, config, instanceSalt)]

\* (mutation) the Map named mappings is one object shared by the calls
CallAccShared(calls, i) ==
    [mappings |-> calls[1].acc.mappings, anonymizedPrompt |-> calls[i].acc.anonymizedPrompt]

\* const mappings and let anonymizedPrompt are locals of the call
CallAcc(calls, i) == calls[i].acc

\* generateId, the signature and storage.store run without an await between
\* them; the call then awaits the promise of store
StoreAndSuspend(calls, r) ==
    /\ mappings' = MemStore(mappings, maxSize, nextId, r.mappingData, now)
    /\ nextId' = nextId + 1
    /\ pending' = calls
    /\ UNCHANGED <<vaultVars, config, instanceSalt, detector, issued, deleted, detected, constructed,
                   maxSize, ttlMs, cleanupInterval, timers, now, ticks>>

Suspend(calls) ==
    /\ pending' = calls
    /\ UNCHANGED <<vaultVars, config, instanceSalt, detector, nextId, issued, deleted, detected,
                   constructed, storageVars, now, ticks>>

\* anonymize(prompt) up to its first await
AnonymizeCall(prompt) ==
    /\ Len(issued) + Len(pending) < MaxIds
    /\ last' = [NoLast EXCEPT !.op = "anonymizeCall", !.output = prompt]
    /\ IF Len(ConcurrentDetected[prompt]) = 0
       THEN StoreAndSuspend(
                Append(pending,
                       StoredCall(prompt,
                                  AnonymizeCompute(config, instanceSalt, prompt, <<>>,
                                                   nextId, now))),
                AnonymizeCompute(config, instanceSalt, prompt, <<>>, nextId, now))
       ELSE Suspend(Append(pending,
                           NewCall(prompt, SortByStartDesc(ConcurrentDetected[prompt]))))

\* call i resumes with the proxy it awaited and runs to its next await
ResumeWith(i, acc) ==
    IF Len(pending[i].tokens) > 1
    THEN Suspend([pending EXCEPT ![i] = NextToken(pending[i], acc)])
    ELSE StoreAndSuspend(
             [pending EXCEPT ![i] = StoredCall(pending[i].prompt,
                                               AnonymizeSubstituted(config, nextId, now,
                                                                    acc))],
             AnonymizeSubstituted(config, nextId, now, acc))

AnonymizeResume(i) ==
    /\ pending[i].pc = "proxy"
    /\ last' = [NoLast EXCEPT !.op = "anonymizeResume"]
    /\ ResumeWith(i, SubstituteOne(CallAcc(pending, i), Head(pending[i].tokens),
                                   pending[i].proxy))

\* call i resumes after storage.store and returns its result
AnonymizeReturn(i) ==
    /\ pending[i].pc = "stored"
    /\ issued' = Append(issued,
                        IssuedRecord(pending[i].prompt,
                                     ConcurrentDetected[pending[i].prompt],
                                     pending[i].result,
                                     pending[i].result.mappingData.createdAt))
    /\ pending' = [k \in 1..(Len(pending) - 1) |->
                       IF k < i THEN pending[k] ELSE pending[k + 1]]
    /\ last' = [NoLast EXCEPT !.op = "anonymize", !.output = pending[i].prompt,
                              !.mapId = pending[i].result.mappingData.id,
                              !.signature = pending[i].result.signature,
                              !.text = pending[i].result.anonPrompt]
    /\ UNCHANGED <<vaultVars, config, instanceSalt, detector, nextId, deleted, detected, constructed,
                   storageVars, now, ticks>>

NextConcurrent ==
    \/ \E prompt \in ConcurrentPrompts : AnonymizeCall(prompt)
    \/ \E i \in 1..Len(pending) : AnonymizeResume(i)
    \/ \E i \in 1..Len(pending) : AnonymizeReturn(i)

SpecConcurrent == Init /\ [][NextConcurrent]_vars

(***************************************************************************)
(* The stored record is overwritten behind the engine's back               *)
(***************************************************************************)
\* what somebody with access to the backend writes: other entries, and the
\* old signature, none, or an HMAC made without the engine's secret
TamperedData(data, editEntries, sigChoice) ==
    LET entries == IF editEntries /\ data.mappings # <<>>
                   THEN [data.mappings EXCEPT ![1].value = EvilText]
                   ELSE IF editEntries
                   THEN <<[key |-> PlainOutput, value |-> EvilText]>>
                   ELSE data.mappings
        sig == CASE sigChoice = "keep" -> data.signature
                 [] sigChoice = "drop" -> Undefined
                 [] OTHER -> createHmac(DataToSign(data.id, entries), AttackerSecret)
    IN [data EXCEPT !.mappings = entries, !.signature = sig]

\* MemoryStorage.store under an id that is present
TamperStored(mapId, editEntries, sigChoice) ==
    /\ MapHas(mappings, mapId)
    /\ editEntries \/ sigChoice # "keep"
    /\ mappings' = MemStore(mappings, maxSize, mapId,
                            TamperedData(MapGet(mappings, mapId), editEntries, sigChoice), now)
    /\ last' = [NoLast EXCEPT !.op = "tamper", !.mapId = mapId]
    /\ UNCHANGED <<vaultVars, engineVars, maxSize, ttlMs, cleanupInterval, timers, now, ticks>>

InitTamper == Init /\ config.enableSignatures

NextTamper ==
    \/ \E prompt \in Prompts : Anonymize(TRUE, prompt)
    \/ \E mapId \in KnownIds : \E args \in DeanonymizeArgs(mapId) :
           Deanonymize(args[1], mapId, args[2])
    \/ \E mapId \in MapIds, editEntries \in BOOLEAN, sigChoice \in {"keep", "drop", "forge"} :
           TamperStored(mapId, editEntries, sigChoice)

SpecTamper == InitTamper /\ [][NextTamper]_vars

(***************************************************************************)
(* MemoryStorage called directly, with a small capacity                    *)
(***************************************************************************)
\* the MappingData a caller hands to store: its own createdAt, not the clock's
StoreData(mapId, t) ==
    {[id |-> mapId, mappings |-> e, createdAt |-> t + 1, signature |-> Undefined,
      strategy |-> "hash-salt"] :
         e \in {<<>>, <<[key |-> PlainOutput, value |-> EvilText]>>}}

InitStorage ==
    /\ config = DefaultEngineConfig
    /\ instanceSalt = GeneratedSalt
    /\ detector = DEFAULT_DETECTION_CONFIG
    /\ mappings = <<>>
    /\ maxSize \in 1..MaxCap
    /\ ttlMs = DefaultTtlMs
    /\ cleanupInterval = TRUE
    /\ timers = 1
    /\ now = 0
    /\ ticks = 0
    /\ nextId = 1
    /\ issued = <<>>
    /\ deleted = {}
    /\ detected = <<>>
    /\ constructed = TRUE
    /\ pending = <<>>
    /\ vault = FALSE
    /\ isInitialized = FALSE
    /\ last = NoLast

Store(mapId, mappingData) ==
    IF mapId = 0
    THEN /\ last' = [NoLast EXCEPT !.op = "store", !.outcome = "StorageError",
                                   !.msg = "Map ID must be a non-empty string"]
         /\ UNCHANGED <<vaultVars, engineVars, storageVars, now, ticks>>
    ELSE /\ mappings' = MemStore(mappings, maxSize, mapId, mappingData, now)
         /\ last' = [NoLast EXCEPT !.op = "store", !.mapId = mapId, !.data = mappingData,
                                   !.found = MapHas(mappings, mapId),
                                   !.evicted = MapKeys(mappings) \ MapKeys(mappings')]
         /\ UNCHANGED <<vaultVars, engineVars, maxSize, ttlMs, cleanupInterval, timers, now, ticks>>

Retrieve(mapId) ==
    IF mapId = 0
    THEN /\ last' = [NoLast EXCEPT !.op = "retrieve", !.outcome = "StorageError",
                                   !.msg = "Map ID must be a non-empty string"]
         /\ UNCHANGED <<vaultVars, engineVars, storageVars, now, ticks>>
    ELSE LET found == MemRetrieveFound(mappings, ttlMs, mapId, now)
         IN /\ mappings' = MemRetrieveTable(mappings, ttlMs, mapId, now)
            /\ last' = [NoLast EXCEPT !.op = "retrieve", !.mapId = mapId, !.found = found,
                                      !.data = IF found THEN MapGet(mappings, mapId)
                                               ELSE NoData,
                                      !.evicted = MapKeys(mappings) \ MapKeys(mappings')]
            /\ UNCHANGED <<vaultVars, engineVars, maxSize, ttlMs, cleanupInterval, timers, now, ticks>>

StorageDelete(mapId) ==
    IF mapId = 0
    THEN /\ last' = [NoLast EXCEPT !.op = "delete", !.outcome = "StorageError",
                         !.msg = "Failed to delete mapping: Map ID must be a non-empty string"]
         /\ UNCHANGED <<vaultVars, engineVars, storageVars, now, ticks>>
    ELSE /\ mappings' = MapDelete(mappings, mapId)
         /\ last' = [NoLast EXCEPT !.op = "delete", !.mapId = mapId]
         /\ UNCHANGED <<vaultVars, engineVars, maxSize, ttlMs, cleanupInterval, timers, now, ticks>>

Clear ==
    /\ mappings' = <<>>
    /\ last' = [NoLast EXCEPT !.op = "clear"]
    /\ UNCHANGED <<vaultVars, engineVars, maxSize, ttlMs, cleanupInterval, timers, now, ticks>>

\* setTTL: the new TTL, and the sweep timer restarted when the TTL is positive
SetTTL(ttl) ==
    /\ ttlMs' = ttl
    /\ cleanupInterval' = (ttl > 0)
    /\ timers' = (IF cleanupInterval THEN timers - 1 ELSE timers)
                     + (IF ttl > 0 THEN 1 ELSE 0)
    /\ last' = [NoLast EXCEPT !.op = "setTTL"]
    /\ UNCHANGED <<vaultVars, engineVars, mappings, maxSize, now, ticks>>

\* Array.from(this.mappings.keys())
getAllMappingIds(table) == [i \in 1..Len(table) |-> table[i].key]

GetAllMappingIds ==
    /\ last' = [NoLast EXCEPT !.op = "getAllMappingIds", !.ids = getAllMappingIds(mappings)]
    /\ UNCHANGED <<vaultVars, engineVars, storageVars, now, ticks>>

\* getStats().totalMappings
GetStats ==
    /\ last' = [NoLast EXCEPT !.op = "getStats", !.total = Len(mappings)]
    /\ UNCHANGED <<vaultVars, engineVars, storageVars, now, ticks>>

\* the TTLs given to setTTL: disabled (negative or zero) and the default
TtlValues == {0 - 1, 0, DefaultTtlMs}

NextStorage ==
    \/ \E mapId \in MapIds : \E mappingData \in StoreData(mapId, now) :
           Store(mapId, mappingData)
    \/ \E mapId \in MapIds : Retrieve(mapId)
    \/ \E mapId \in MapIds : StorageDelete(mapId)
    \/ \E ttl \in TtlValues : SetTTL(ttl)
    \/ GetAllMappingIds
    \/ GetStats
    \/ Clear
    \/ Dispose
    \/ Sweep
    \/ \E d \in {DefaultTtlMs, DefaultTtlMs + 1} : Tick(d)

SpecStorage == InitStorage /\ [][NextStorage]_vars

(***************************************************************************)
(* TokenDetector called directly, with a configured detector               *)
(***************************************************************************)
DetectAlphabet == {"a", "b", "A"}
DetectTexts ==
    UNION {[1..n -> DetectAlphabet] : n \in 0..MaxTextLen}
        \cup {PromptDollar, PromptEmails, PromptOverlap, PromptHole}
\* customPatterns: literal, global regular expressions
CustomLiterals == {<<"a", "b">>, <<"b", "a">>, <<"a", "b", "a">>,
                   <<"a", "b", "@", "c", "d">>}
CustomPatternLists ==
    UNION {[1..n -> {[literal |-> l] : l \in CustomLiterals}] : n \in 0..MaxPatterns}
\* new TokenDetector(config)
DetectorConfigs ==
    {[DEFAULT_DETECTION_CONFIG EXCEPT !.minLength = m, !.customPatterns = ps,
                                      !.caseSensitive = cs] :
         m \in {2, DefaultMinLength}, ps \in CustomPatternLists, cs \in BOOLEAN}

InitDetect ==
    /\ config = DefaultEngineConfig
    /\ instanceSalt = GeneratedSalt
    /\ detector \in DetectorConfigs
    /\ mappings = <<>>
    /\ maxSize = DefaultMaxSize
    /\ ttlMs = DefaultTtlMs
    /\ cleanupInterval = TRUE
    /\ timers = 1
    /\ now = 0
    /\ ticks = 0
    /\ nextId = 1
    /\ issued = <<>>
    /\ deleted = {}
    /\ detected = <<>>
    /\ constructed = TRUE
    /\ pending = <<>>
    /\ vault = FALSE
    /\ isInitialized = FALSE
    /\ last = NoLast

DetectTokens(text) ==
    /\ detected' = detectTokens(detector, text)
    /\ last' = [NoLast EXCEPT !.op = "detectTokens", !.output = text]
    /\ UNCHANGED <<vaultVars, config, instanceSalt, detector, nextId, issued, deleted, constructed,
                   pending, storageVars, now, ticks>>

NextDetect == \E text \in DetectTexts : DetectTokens(text)

SpecDetect == InitDetect /\ [][NextDetect]_vars

(***************************************************************************)
(* Properties                                                              *)
(***************************************************************************)
\* the last operation was deanonymize on an id that anonymize returned, and
\* storage.retrieve gave the record
RetrievedIssued == last.op = "deanonymize" /\ last.found /\ Issued(last.mapId)

\* C1 (Spec): round trip.  When deanonymize is called with the anonPrompt,
\* mapId and signature that anonymize returned, and the mapping is still
\* stored, it succeeds and returns the prompt exactly.
C1_RoundTrip ==
    (/\ RetrievedIssued
     /\ last.output = issued[last.mapId].anonPrompt
     /\ last.signature = issued[last.mapId].signature)
        => (last.outcome = "ok" /\ last.text = issued[last.mapId].prompt)

C3_CleanPromptNoOp ==
    (/\ RetrievedIssued
     /\ issued[last.mapId].tokens = <<>>
     /\ ~Falsy(last.output)
     /\ last.signature = issued[last.mapId].signature)
        => (last.outcome = "ok" /\ last.text = last.output)

\* C4 (SpecDetect): the sequence detectTokens returns is sorted by startIndex
\* and every token ends no later than the next one starts.
C4_SortedDisjoint ==
    \A i \in 1..(Len(detected) - 1) :
        /\ detected[i].startIndex <= detected[i + 1].startIndex
        /\ detected[i].endIndex <= detected[i + 1].startIndex

\* C4 witness: detectTokens returned several tokens after dropping candidates
\* that overlapped
C4_Witness ==
    /\ last.op = "detectTokens"
    /\ Len(detected) >= 2
    /\ Len(Candidates(detector, last.output)) > Len(detected)

\* a mapping that anonymize stored, for which deleteMapping was never called
\* and whose TTL has not elapsed
Alive(mapId) ==
    /\ Issued(mapId)
    /\ mapId \notin deleted
    /\ ~(ttlMs > 0 /\ now - issued[mapId].at > ttlMs)

\* C5 as stated (Spec): a mapping stored by anonymize stays retrievable in
\* every later state until deleteMapping is called for its id or its TTL has
\* elapsed.
C5_LifetimeAsStated ==
    \A mapId \in 1..Len(issued) :
        Alive(mapId) => MemRetrieveFound(mappings, ttlMs, mapId, now)

\* C5 amended (Spec): a stored mapping leaves the table only by deleteMapping
\* for its id, by expiry of its TTL (on deanonymize of its id or on the
\* sweep), by dispose, or by eviction as the first key when anonymize stores
\* into a full table; no other step removes it.
C5_Lifetime ==
    [][\A mapId \in MapKeys(mappings) :
           ~MapHas(mappings', mapId) =>
               \/ last'.op = "deleteMapping" /\ last'.mapId = mapId
               \/ /\ Expired(MapGet(mappings, mapId), ttlMs, now)
                  /\ \/ last'.op = "sweep"
                     \/ last'.op = "deanonymize" /\ last'.mapId = mapId
               \/ last'.op = "dispose"
               \/ /\ last'.op = "anonymize"
                  /\ Len(mappings) >= maxSize
                  /\ mapId = mappings[1].key]_vars

\* C5 witness: after dispose a mapping is gone although deleteMapping was
\* never called for it and its TTL has not elapsed
C5_Witness ==
    /\ last.op = "dispose"
    /\ \E mapId \in 1..Len(issued) : Alive(mapId) /\ ~MapHas(mappings, mapId)

\* C6 (Spec): DELETED is terminal.  Once deleteMapping(id) has completed, no
\* later state holds a mapping for id, and every deanonymize on id fails with
\* ValidationError whatever signature is given.
C6_DeletedTerminal ==
    /\ \A mapId \in deleted : ~MapHas(mappings, mapId)
    /\ (last.op = "deanonymize" /\ last.mapId \in deleted)
           => last.outcome = "ValidationError"

\* C6 witness: deanonymize of a deleted id with the signature anonymize
\* returned for it, after every id has been drawn
C6_Witness ==
    /\ last.op = "deanonymize"
    /\ last.mapId \in deleted
    /\ ~Falsy(last.output)
    /\ ~Falsy(last.signature)
    /\ last.signature = issued[last.mapId].signature
    /\ nextId > MaxIds

\* C7 (Spec): deanonymize on a map id for which storage holds no mapping
\* fails with ValidationError, whatever the signature argument and whether
\* or not signatures are enabled.
C7_PresenceBeforeSignature ==
    (last.op = "deanonymize" /\ ~MapHas(mappings, last.mapId))
        => last.outcome = "ValidationError"

\* C7 witness: signatures are enabled, the mapping has expired, and the call
\* carries no signature
C7_Witness ==
    /\ last.op = "deanonymize"
    /\ config.enableSignatures
    /\ ~Falsy(last.output)
    /\ Issued(last.mapId)
    /\ last.mapId \notin deleted
    /\ ~MapHas(mappings, last.mapId)
    /\ Falsy(last.signature)
    /\ last.msg = "Mapping not found for ID: " \o ToString(last.mapId)

\* the call that last records gives the same outcome when made again
Repeatable ==
    LET r == DeanonymizeCompute(config, MemRetrieveFound(mappings, ttlMs, last.mapId, now),
                                MapGet(mappings, last.mapId), last.output, last.mapId,
                                last.signature)
    IN /\ r.outcome = last.outcome
       /\ r.msg = last.msg
       /\ r.text = last.text

\* C8 (Spec): a deanonymize call on a stored, non-expired mapping leaves the
\* table (ids, entries, signatures, createdAt) as it was, whether the call
\* succeeds or fails, and the same call made again gives the same outcome.
C8_RetrievalKeepsState ==
    [][(last'.op = "deanonymize" /\ last'.found)
           => (mappings' = mappings /\ Repeatable')]_vars

\* C8 witness: a deanonymize call that found the mapping and failed the
\* signature validation
C8_Witness ==
    /\ RetrievedIssued
    /\ issued[last.mapId].tokens # <<>>
    /\ last.signature = WrongSignature
    /\ last.outcome = "SignatureError"

\* the entries of table other than those under the ids in S, in Map order
RECURSIVE Without(_, _)
Without(table, S) ==
    IF table = <<>> THEN <<>>
    ELSE IF Head(table).key \in S THEN Without(Tail(table), S)
    ELSE <<Head(table)>> \o Without(Tail(table), S)

\* C9 (SpecStorage): store of an id that is not present into a table that
\* holds maxSize entries removes exactly the earliest-inserted entry, keeps
\* every other entry as it was, and retrieve of the evicted id finds nothing.
C9_EvictOldest ==
    [][(/\ last'.op = "store"
        /\ last'.outcome = "ok"
        /\ ~MapHas(mappings, last'.mapId)
        /\ Len(mappings) = maxSize)
           => /\ MapKeys(mappings') =
                     (MapKeys(mappings) \ {mappings[1].key}) \cup {last'.mapId}
              /\ Without(mappings', {last'.mapId}) = Tail(mappings)
              /\ ~MemRetrieveFound(mappings', ttlMs', mappings[1].key, now')]_vars

\* C9 witness: a store into a full table of capacity MaxCap evicted an id
C9_Witness ==
    /\ last.op = "store"
    /\ ~last.found
    /\ last.evicted # {}
    /\ maxSize = MaxCap
    /\ Len(mappings) = maxSize

\* C10 (SpecStorage): store under an id that is present evicts nothing, even
\* at capacity: the ids and their order are unchanged, the other entries are
\* unchanged, the entry holds the new data, and its createdAt is the time of
\* the store, not the caller's timestamp.
C10_UpdateInPlace ==
    [][(/\ last'.op = "store"
        /\ last'.outcome = "ok"
        /\ MapHas(mappings, last'.mapId))
           => /\ [i \in 1..Len(mappings') |-> mappings'[i].key]
                     = [i \in 1..Len(mappings) |-> mappings[i].key]
              /\ Without(mappings', {last'.mapId}) = Without(mappings, {last'.mapId})
              /\ MapGet(mappings', last'.mapId)
                     = [last'.data EXCEPT !.createdAt = now]]_vars

\* C10 witness: at capacity, a store under a present id replaced its entries
\* and moved its createdAt from an earlier time to now
C10_Witness ==
    /\ last.op = "store"
    /\ last.found
    /\ last.evicted = {}
    /\ Len(mappings) = maxSize
    /\ maxSize = MaxCap
    /\ MapGet(mappings, last.mapId).createdAt = now
    /\ last.data.createdAt # now
    /\ now > 0

\* C11 (SpecStorage): retrieve(id) returns the stored mapping iff id is
\* present and the TTL is disabled (ttl <= 0) or the age is at most the TTL;
\* when ttl > 0 and the age exceeds it, retrieve returns absent and removes
\* that entry, and only that entry, in the same call, so the table holds one
\* entry fewer for the capacity check.
C11_RetrieveTtl ==
    [][(last'.op = "retrieve" /\ last'.outcome = "ok")
           => /\ last'.found <=>
                     /\ MapHas(mappings, last'.mapId)
                     /\ \/ ttlMs <= 0
                        \/ now - MapGet(mappings, last'.mapId).createdAt <= ttlMs
              /\ last'.found =>
                     (last'.data = MapGet(mappings, last'.mapId) /\ mappings' = mappings)
              /\ ~MapHas(mappings, last'.mapId) => mappings' = mappings
              /\ (/\ MapHas(mappings, last'.mapId)
                  /\ ttlMs > 0
                  /\ now - MapGet(mappings, last'.mapId).createdAt > ttlMs)
                     => /\ ~MapHas(mappings', last'.mapId)
                        /\ mappings' = Without(mappings, {last'.mapId})
                        /\ Len(mappings') = Len(mappings) - 1]_vars

\* C11 witness: retrieve found the id present but expired and removed it from
\* a table that was full
C11_Witness ==
    /\ last.op = "retrieve"
    /\ ~last.found
    /\ last.evicted = {last.mapId}
    /\ ttlMs > 0
    /\ Len(mappings) = maxSize - 1

\* the ids of table whose age has exceeded the TTL
ExpiredIds(table, ttl, t) ==
    {table[i].key : i \in {j \in 1..Len(table) : Expired(table[j].value, ttl, t)}}

\* C12 (SpecStorage): once the age of a stored mapping has exceeded the TTL it
\* is as if deleted: no step other than a store of its id makes retrieve
\* return it, getAllMappingIds does not list it, getStats does not count it,
\* and it does not count for the capacity check (a store of a new id into a
\* table with fewer than maxSize live entries evicts no live entry).
C12_ExpiryIsDeletion ==
    [][/\ \A mapId \in ExpiredIds(mappings, ttlMs, now) :
              ~(last'.op = "store" /\ last'.mapId = mapId)
                  => ~MemRetrieveFound(mappings', ttlMs', mapId, now')
       /\ last'.op = "getAllMappingIds"
              => \A i \in 1..Len(last'.ids) :
                     last'.ids[i] \notin ExpiredIds(mappings, ttlMs, now)
       /\ last'.op = "getStats"
              => last'.total = Len(mappings) - Cardinality(ExpiredIds(mappings, ttlMs, now))
       /\ (/\ last'.op = "store"
           /\ Len(mappings) - Cardinality(ExpiredIds(mappings, ttlMs, now)) < maxSize)
              => last'.evicted \subseteq ExpiredIds(mappings, ttlMs, now)]_vars

\* C13 (Spec): deleteMapping is idempotent.  For a non-empty string id it
\* completes without error, removes that id and nothing else, and changes
\* nothing when the id has no stored mapping, which is the case of a second
\* call for the same id.
C13_DeleteIdempotent ==
    [][(last'.op = "deleteMapping" /\ ValidId(last'.mapId))
           => /\ last'.outcome = "ok"
              /\ mappings' = Without(mappings, {last'.mapId})
              /\ ~MapHas(mappings, last'.mapId) => mappings' = mappings
              /\ MapDelete(mappings', last'.mapId) = mappings'
              /\ UNCHANGED <<maxSize, ttlMs, cleanupInterval, timers>>]_vars

\* C13 witness: deleteMapping completed for an id that anonymize had returned
\* and whose mapping was no longer stored, while another mapping was stored
C13_Witness ==
    /\ last.op = "deleteMapping"
    /\ last.outcome = "ok"
    /\ Issued(last.mapId)
    /\ ~last.found
    /\ mappings # <<>>

\* C14 (Spec): with enableSignatures = false, anonymize returns no signature
\* and stores a mapping without a signature, and deanonymize of a non-empty
\* output succeeds for a stored id with no signature argument and with any
\* signature argument.
C14_UnsignedMode ==
    ~config.enableSignatures =>
        /\ (last.op = "anonymize" /\ last.outcome = "ok")
               => /\ last.signature = Undefined
                  /\ MapHas(mappings, last.mapId)
        /\ \A i \in 1..Len(mappings) : mappings[i].value.signature = Undefined
        /\ (last.op = "deanonymize" /\ last.found) => last.outcome = "ok"

\* C14 witness: signatures are off and deanonymize restored the tokens of a
\* stored mapping although the caller gave a signature that was never issued
C14_Witness ==
    /\ ~config.enableSignatures
    /\ RetrievedIssued
    /\ issued[last.mapId].tokens # <<>>
    /\ last.output = issued[last.mapId].anonPrompt
    /\ last.signature = WrongSignature
    /\ last.outcome = "ok"

\* C15 (SpecConfig): in every state of a constructed engine, after any
\* updateConfig calls, enableSignatures implies a non-empty signatureSecret;
\* new AnonEngine with enableSignatures = true and no secret (undefined or
\* empty) fails with ValidationError and no engine exists.
C15_SignaturesNeedSecret ==
    /\ (constructed /\ config.enableSignatures) => ~Falsy(config.signatureSecret)
    /\ (/\ last.op = "construct"
        /\ last.request.enableSignatures
        /\ Falsy(last.request.signatureSecret))
           => (last.outcome = "ValidationError" /\ ~constructed /\ timers = 0)

\* C15 witness: an engine with signatures on, after an updateConfig call
\* whose argument carried signatureSecret: undefined
C15_Witness ==
    /\ constructed
    /\ config.enableSignatures
    /\ last.op = "updateConfig"
    /\ "signatureSecret" \in last.request.keys
    /\ config.enableLogging

\* C16 (Spec): under Hash+Salt every anonymize call of one engine replaces the
\* same token value by the same proxy, whatever operations were invoked in
\* between, and every call returns a different mapId.
C16_StableProxies ==
    config.strategy = "hash-salt" =>
        \A i, j \in 1..Len(issued) :
            /\ i # j => issued[i].mapId # issued[j].mapId
            /\ \A a \in 1..Len(issued[i].entries), b \in 1..Len(issued[j].entries) :
                   issued[i].entries[a].value = issued[j].entries[b].value
                       => issued[i].entries[a].key = issued[j].entries[b].key

\* C17 (Spec): input validation leaves the state untouched.  anonymize with
\* an empty or non-string prompt, and deanonymize with an empty or
\* non-string output or map id, fail with ValidationError and the storage
\* (the table, with entries that have expired still in it, and its
\* settings) is as it was; a rejected anonymize draws no id.
C17_ValidationKeepsState ==
    [][/\ (last'.op = "anonymize" /\ last'.output = <<>>)
              => /\ last'.outcome = "ValidationError"
                 /\ UNCHANGED <<storageVars, nextId, issued>>
       /\ (/\ last'.op = "deanonymize"
           /\ \/ Falsy(last'.output)
              \/ ~IsString(last'.output)
              \/ ~ValidId(last'.mapId))
              => /\ last'.outcome = "ValidationError"
                 /\ last'.text = <<>>
                 /\ UNCHANGED storageVars]_vars

\* C17 witness: deanonymize with an output that is not a string, for an id
\* whose stored mapping has expired, failed and left the expired entry stored
C17_Witness ==
    /\ last.op = "deanonymize"
    /\ ~IsString(last.output)
    /\ last.outcome = "ValidationError"
    /\ MapHas(mappings, last.mapId)
    /\ Expired(MapGet(mappings, last.mapId), ttlMs, now)

\* PromptDollar with other characters inside the span of its detected token
PromptDollarTwin == <<"p", "w", "d", "=", "a", "b", "d", "c", "b", "a", "b", "c", "a", "b">>
TwinPrompt(prompt) == IF prompt = PromptDollar THEN PromptDollarTwin ELSE prompt
TwinDetected == [p \in Prompts |-> detectTokens(DEFAULT_DETECTION_CONFIG, TwinPrompt(p))]

\* the two prompts have tokens on the same spans and agree outside of them
SameSpans(prompt) ==
    /\ Len(TwinPrompt(prompt)) = Len(prompt)
    /\ Len(TwinDetected[prompt]) = Len(Detected[prompt])
    /\ \A i \in 1..Len(Detected[prompt]) :
           /\ TwinDetected[prompt][i].startIndex = Detected[prompt][i].startIndex
           /\ TwinDetected[prompt][i].endIndex = Detected[prompt][i].endIndex
    /\ \A k \in 0..(Len(prompt) - 1) :
           CharAt(prompt, k) # CharAt(TwinPrompt(prompt), k)
               => \E i \in 1..Len(Detected[prompt]) :
                      /\ Detected[prompt][i].startIndex <= k
                      /\ k < Detected[prompt][i].endIndex

\* the run of anonymize on the twin prompt, with the same id, time and salt
TwinResult(rec) ==
    AnonymizeCompute(config, instanceSalt, TwinPrompt(rec.prompt), TwinDetected[rec.prompt],
                     rec.mapId, rec.at)
\* the deanonymize call of last made in the twin run: where the caller passed
\* on what anonymize returned, the twin caller passes on what its run returned
TwinDeanonymize(rec, twin) ==
    DeanonymizeCompute(config, last.found,
                       IF last.found THEN twin.mappingData ELSE NoData,
                       IF last.output = rec.anonPrompt THEN twin.anonPrompt ELSE last.output,
                       last.mapId,
                       IF last.signature = rec.signature THEN twin.signature
                       ELSE last.signature)
SameFailure(r) == r.outcome = last.outcome /\ r.msg = last.msg

C19_DisposeIdempotent ==
    [][last'.op = "dispose"
           => /\ last'.outcome = "ok"
              /\ mappings' = <<>>
              /\ ~cleanupInterval'
              /\ timers' = 0
              /\ UNCHANGED <<maxSize, ttlMs>>
              /\ last.op = "dispose" => UNCHANGED storageVars]_vars

\* C19 witness: dispose was called although an earlier dispose had already
\* stopped the timer of a storage with a positive TTL
C19_Witness ==
    /\ last.op = "dispose"
    /\ ~last.found
    /\ ttlMs > 0
    /\ now > 0

\* the (proxy, original) pairs of a prompt's own tokens
OwnPairs(prompt) ==
    {<<StrategyAnonymize(ConcurrentDetected[prompt][k].value, config, instanceSalt),
       ConcurrentDetected[prompt][k].value>> : k \in 1..Len(ConcurrentDetected[prompt])}
PairsOf(entries) == {<<entries[k].key, entries[k].value>> : k \in 1..Len(entries)}
\* what the call would have stored and returned had it run alone
AsAlone(rec, r) ==
    /\ MapHas(mappings, rec.mapId)
    /\ MapGet(mappings, rec.mapId).mappings = r.mappingData.mappings
    /\ MapGet(mappings, rec.mapId).signature = r.mappingData.signature
    /\ PairsOf(MapGet(mappings, rec.mapId).mappings) \subseteq OwnPairs(rec.prompt)
    /\ rec.anonPrompt = r.anonPrompt
    /\ rec.signature = r.signature

\* C20 (SpecConcurrent): concurrent anonymize calls are isolated.  Under
\* every interleaving at the await points each returned mapId is different,
\* and the mapping stored under it, the returned prompt and the signature
\* are those of the same call run alone: every stored pair is a pair of the
\* call's own prompt.
C20_Isolated ==
    /\ \A i, j \in 1..Len(issued) : i # j => issued[i].mapId # issued[j].mapId
    /\ \A i \in 1..Len(issued) :
           AsAlone(issued[i],
                   AnonymizeCompute(config, instanceSalt, issued[i].prompt,
                                    ConcurrentDetected[issued[i].prompt],
                                    issued[i].mapId, issued[i].at))

\* C20 witness: two calls with tokens have returned, and the call that
\* started first drew its id after the other one
C20_Witness ==
    /\ Len(issued) = 2
    /\ issued[1].tokens # <<>>
    /\ issued[2].tokens # <<>>
    /\ issued[1].prompt # issued[2].prompt
    /\ issued[1].prompt = PromptEmails
    /\ issued[1].mapId = 2
    /\ last.op = "anonymize"

(***************************************************************************)
(* MemoryStorage under concurrent callers: store, retrieve and delete are  *)
(* async functions without an await in their bodies, so a call runs its    *)
(* whole body on the table when it is issued and hands back a settled      *)
(* promise; the caller's continuation observes the result later            *)
(***************************************************************************)
MaxCalls == 3

\* one issued call: its arguments, the clock when its body ran, its result
\* and whether the caller has observed the result yet
StorageCall(op, mapId, data, found, result) ==
    [op |-> op, mapId |-> mapId, data |-> data, at |-> now,
     outcome |-> IF mapId = 0 THEN "StorageError" ELSE "ok",
     found |-> found, result |-> result, awaited |-> FALSE]

\* a call is issued: the table after its body and the promise it returns
Issue(table, call) ==
    /\ Len(pending) < MaxCalls
    /\ mappings' = table
    /\ pending' = Append(pending, call)
    /\ last' = [NoLast EXCEPT !.op = call.op, !.mapId = call.mapId,
                              !.outcome = call.outcome]
    /\ UNCHANGED <<vaultVars, config, instanceSalt, detector, nextId, issued, deleted, detected,
                   constructed, maxSize, ttlMs, cleanupInterval, timers, now, ticks>>

\* (mutation) the body of store yields after reading the table of a new
\* storage and writes that snapshot back: the stores issued meanwhile are lost
IssueStoreStale(mapId, mappingData) ==
    Issue(IF mapId = 0 THEN mappings
          ELSE MemStore(<<>>, maxSize, mapId, mappingData, now),
          StorageCall("store", mapId, mappingData, FALSE, NoData))

IssueStore(mapId, mappingData) ==
    Issue(IF mapId = 0 THEN mappings
          ELSE MemStore(mappings, maxSize, mapId, mappingData, now),
          StorageCall("store", mapId, mappingData, FALSE, NoData))

IssueRetrieve(mapId) ==
    Issue(IF mapId = 0 THEN mappings ELSE MemRetrieveTable(mappings, ttlMs, mapId, now),
          StorageCall("retrieve", mapId, NoData,
                      mapId # 0 /\ MemRetrieveFound(mappings, ttlMs, mapId, now),
                      IF mapId # 0 /\ MemRetrieveFound(mappings, ttlMs, mapId, now)
                      THEN MapGet(mappings, mapId) ELSE NoData))

IssueDelete(mapId) ==
    Issue(IF mapId = 0 THEN mappings ELSE MapDelete(mappings, mapId),
          StorageCall("delete", mapId, NoData, FALSE, NoData))

\* the continuation of the caller of call i runs: it sees the result
Await(i) ==
    /\ ~pending[i].awaited
    /\ pending' = [pending EXCEPT ![i].awaited = TRUE]
    /\ last' = [NoLast EXCEPT !.op = "await", !.mapId = pending[i].mapId,
                              !.outcome = pending[i].outcome,
                              !.found = pending[i].found, !.data = pending[i].result]
    /\ UNCHANGED <<vaultVars, config, instanceSalt, detector, nextId, issued, deleted, detected,
                   constructed, storageVars, now, ticks>>

NextMemory ==
    \/ \E mapId \in 0..MaxIds : \E mappingData \in StoreData(mapId, now) :
           IssueStore(mapId, mappingData)
    \/ \E mapId \in 0..MaxIds : IssueRetrieve(mapId)
    \/ \E mapId \in 0..MaxIds : IssueDelete(mapId)
    \/ \E i \in 1..Len(pending) : Await(i)
    \/ Tick(DefaultTtlMs + 1)

SpecMemory == InitStorage /\ [][NextMemory]_vars

\* one call run alone on a table, as the sequential storage runs it
ApplyCall(table, call, cap, ttl) ==
    IF call.mapId = 0 THEN table
    ELSE IF call.op = "store" THEN MemStore(table, cap, call.mapId, call.data, call.at)
    ELSE IF call.op = "retrieve" THEN MemRetrieveTable(table, ttl, call.mapId, call.at)
    ELSE MapDelete(table, call.mapId)

\* the table after the first n calls of an order, one after the other
RECURSIVE TableAfter(_, _, _, _, _)
TableAfter(calls, order, n, cap, ttl) ==
    IF n = 0 THEN <<>>
    ELSE ApplyCall(TableAfter(calls, order, n - 1, cap, ttl), calls[order[n]], cap, ttl)

\* the orders of the issued calls
Orders(calls) == Permutations(1..Len(calls))

\* what a store of the call list wrote: its argument with the storage's createdAt
Written(call) == [call.data EXCEPT !.createdAt = call.at]

\* C21: whatever calls were issued concurrently and in whatever order their
\* callers resume, the table is the table some sequential order of the same
\* calls produces, and every retrieve result is absent or exactly the record
\* one store call wrote
C21_Linearizable ==
    /\ \E order \in Orders(pending) :
           mappings = TableAfter(pending, order, Len(pending), maxSize, ttlMs)
    /\ \A i \in 1..Len(pending) :
           (pending[i].op = "retrieve" /\ pending[i].found)
               => \E j \in 1..Len(pending) :
                      /\ pending[j].op = "store"
                      /\ pending[j].mapId = pending[i].mapId
                      /\ pending[i].result = Written(pending[j])

\* two stores of different ids and a retrieve of the first were issued before
\* any caller resumed; the retrieve found the stored record, and the caller of
\* the last call has resumed before the others
C21_Witness ==
    /\ Len(pending) = 3
    /\ pending[1].op = "store" /\ pending[2].op = "store" /\ pending[3].op = "retrieve"
    /\ pending[1].mapId # pending[2].mapId
    /\ pending[3].mapId = pending[1].mapId
    /\ pending[3].found
    /\ pending[3].awaited /\ ~pending[1].awaited /\ ~pending[2].awaited
    /\ maxSize = MaxCap

(***************************************************************************)
(* CryptoUtils.constantTimeCompare called directly                         *)
(***************************************************************************)
MaxCompareLen == 3
CompareAlphabet == {"a", "b", "c", "A"}
CompareStrings == UNION {[1..n -> CompareAlphabet] : n \in 0..MaxCompareLen}

\* the two arguments of the call, drawn before it is made; no engine exists
InitCompare ==
    /\ config = DefaultEngineConfig
    /\ instanceSalt = GeneratedSalt
    /\ detector = DEFAULT_DETECTION_CONFIG
    /\ mappings = <<>>
    /\ maxSize = DefaultMaxSize
    /\ ttlMs = DefaultTtlMs
    /\ cleanupInterval = FALSE
    /\ timers = 0
    /\ now = 0
    /\ ticks = 0
    /\ nextId = 1
    /\ issued = <<>>
    /\ deleted = {}
    /\ detected = <<>>
    /\ constructed = FALSE
    /\ pending = <<>>
    /\ vault = FALSE
    /\ isInitialized = FALSE
    /\ last \in {[NoLast EXCEPT !.output = a, !.text = b] :
                     a \in CompareStrings, b \in CompareStrings}

\* CryptoUtils.constantTimeCompare(a, b): a static call
ConstantTimeCompare(a, b) ==
    /\ last.op = "none"
    /\ last' = [NoLast EXCEPT !.op = "constantTimeCompare", !.output = a, !.text = b,
                              !.found = constantTimeCompare(a, b)]
    /\ UNCHANGED <<vaultVars, engineVars, storageVars, now, ticks>>

NextCompare == ConstantTimeCompare(last.output, last.text)

SpecCompare == InitCompare /\ [][NextCompare]_vars

\* C22: constantTimeCompare(a, b) is true exactly when a and b are the same
\* string: false for different lengths, false for equal lengths that differ
\* in any position, true for equal strings, the two empty strings included
C22_CompareIsEquality ==
    last.op = "constantTimeCompare" => (last.found <=> (last.output = last.text))

\* two strings of the same length that differ in their first position only
\* were compared, and the result was false
C22_Witness ==
    /\ last.op = "constantTimeCompare"
    /\ Len(last.output) = MaxCompareLen
    /\ Len(last.text) = MaxCompareLen
    /\ last.output[1] # last.text[1]
    /\ \A i \in 2..MaxCompareLen : last.output[i] = last.text[i]
    /\ ~last.found

(***************************************************************************)
(* The functions exported by index.ts: each call builds its own engine     *)
(* (and with it a new, empty MemoryStorage) and disposes it in finally     *)
(***************************************************************************)
\* the config argument: the valid Memory configurations, and signatures
\* enabled without a secret
LibraryRequests ==
    EngineConfigs \cup {[DefaultEngineConfig EXCEPT !.enableSignatures = TRUE]}

\* index.validateConfig(config) for a Memory configuration: errors and warnings
indexValidateConfig(cfg) ==
    LET errors ==
            (IF cfg.enableSignatures /\ Falsy(cfg.signatureSecret)
             THEN <<"signatureSecret is required when enableSignatures is true">>
             ELSE <<>>)
            \o (IF cfg.strategy \notin {"hash-salt", "embeddings"}
                THEN <<"Invalid anonymization strategy: " \o cfg.strategy>> ELSE <<>>)
            \o (IF cfg.storage \notin {"memory", "vault"}
                THEN <<"Invalid storage backend: " \o cfg.storage>> ELSE <<>>)
        warnings ==
            (IF cfg.enableLogging
             THEN <<"Logging is enabled - ensure logs are properly secured">> ELSE <<>>)
            \o (IF cfg.storage = "memory"
                THEN <<"Memory storage is not persistent - mappings will be lost on restart">>
                ELSE <<>>)
            \o (IF ~cfg.enableSignatures
                THEN <<"Signatures are disabled - mappings cannot be validated against tampering">>
                ELSE <<>>)
    IN [valid |-> (Len(errors) = 0), errors |-> errors, warnings |-> warnings]

\* the table of the MemoryStorage that createAnonEngine has just built
NewStorage == <<>>
\* MemoryStorage.dispose in the finally block: this.mappings.clear()
MemCleared(table) == <<>>

\* index.anonymize(prompt, config): createAnonEngine, engine.anonymize,
\* engine.dispose; the engine and its table are gone when the call returns
IndexAnonymize(prompt, request) ==
    IF validateConfig(request) # ""
    THEN /\ last' = [NoLast EXCEPT !.op = "index.anonymize", !.output = prompt,
                                   !.request = request, !.outcome = "ValidationError",
                                   !.msg = validateConfig(request)]
         /\ UNCHANGED <<vaultVars, engineVars, storageVars, now, ticks>>
    ELSE LET r == AnonymizeCompute(request, GeneratedSalt, prompt, Detected[prompt],
                                   nextId, now)
         IN /\ nextId <= MaxIds
            /\ mappings' = MemCleared(MemStore(NewStorage, DefaultMaxSize, nextId,
                                                r.mappingData, now))
            /\ issued' = Append(issued, IssuedRecord(prompt, Detected[prompt], r, now)
                                            @@ [config |-> request])
            /\ nextId' = nextId + 1
            /\ last' = [NoLast EXCEPT !.op = "index.anonymize", !.output = prompt,
                                      !.request = request, !.mapId = nextId,
                                      !.signature = r.signature, !.text = r.anonPrompt]
            /\ UNCHANGED <<vaultVars, config, instanceSalt, detector, deleted, detected, constructed,
                           pending, maxSize, ttlMs, cleanupInterval, timers, now, ticks>>

\* index.deanonymize(output, mapId, signature, config): createAnonEngine,
\* engine.deanonymize on the new engine's storage, engine.dispose
IndexDeanonymize(output, mapId, signature, request) ==
    IF validateConfig(request) # ""
    THEN /\ last' = [NoLast EXCEPT !.op = "index.deanonymize", !.output = output,
                                   !.mapId = mapId, !.signature = signature,
                                   !.request = request, !.outcome = "ValidationError",
                                   !.msg = validateConfig(request)]
         /\ UNCHANGED <<vaultVars, engineVars, storageVars, now, ticks>>
    ELSE LET found == MemRetrieveFound(NewStorage, DefaultTtlMs, mapId, now)
             r == DeanonymizeCompute(request, found,
                                     IF found THEN MapGet(NewStorage, mapId) ELSE NoData,
                                     output, mapId, signature)
         IN /\ mappings' = MemCleared(MemRetrieveTable(NewStorage, DefaultTtlMs, mapId, now))
            /\ last' = [NoLast EXCEPT !.op = "index.deanonymize", !.output = output,
                                      !.mapId = mapId, !.signature = signature,
                                      !.request = request, !.outcome = r.outcome,
                                      !.msg = r.msg, !.text = r.text, !.found = found]
            /\ UNCHANGED <<vaultVars, engineVars, maxSize, ttlMs, cleanupInterval, timers, now, ticks>>

\* index.healthCheck(config): a constructor error is caught by the outer
\* try; otherwise storage health, engine info and index.validateConfig
HealthCheckResult(request) ==
    IF validateConfig(request) # ""
    THEN [healthy |-> FALSE,
          components |-> [storage |-> FALSE, strategy |-> FALSE, configuration |-> FALSE],
          details |-> [error |-> validateConfig(request)]]
    ELSE LET storageHealthy == TRUE
             configValidation == indexValidateConfig(request)
         IN [healthy |-> storageHealthy /\ configValidation.valid,
             components |-> [storage |-> storageHealthy, strategy |-> TRUE,
                             configuration |-> configValidation.valid],
             details |-> [info |-> [strategy |-> request.strategy,
                                    storage |-> request.storage,
                                    signaturesEnabled |-> request.enableSignatures,
                                    loggingEnabled |-> request.enableLogging,
                                    storageHealthy |-> storageHealthy],
                          configValidation |-> configValidation]]

HealthCheck(request) ==
    /\ last' = [NoLast EXCEPT !.op = "index.healthCheck", !.request = request,
                              !.health = HealthCheckResult(request)]
    /\ UNCHANGED <<vaultVars, engineVars, storageVars, now, ticks>>

\* the arguments of index.deanonymize for an id: a response without proxies
\* or the anonymized prompt, no signature or the one that was returned, and
\* any of the configurations
IndexDeanonymizeArgs(mapId) ==
    ({PlainOutput} \cup (IF Issued(mapId) THEN {issued[mapId].anonPrompt} ELSE {}))
        \X ({Undefined} \cup (IF Issued(mapId) THEN {issued[mapId].signature} ELSE {}))
        \X LibraryRequests

NextIndex ==
    \/ \E prompt \in Prompts : \E request \in LibraryRequests :
           IndexAnonymize(prompt, request)
    \/ \E mapId \in (1..Len(issued)) \cup {MaxIds + 1} :
           \E args \in IndexDeanonymizeArgs(mapId) :
               IndexDeanonymize(args[1], mapId, args[2], args[3])
    \/ \E request \in LibraryRequests : HealthCheck(request)

SpecIndex == InitConfig /\ [][NextIndex]_vars

\* C23: index.deanonymize of the anonymized prompt, with the map id and
\* signature that index.anonymize returned and the same config, succeeds and
\* returns the original prompt
C23_ConvenienceRoundTrip ==
    (/\ last.op = "index.deanonymize"
     /\ Issued(last.mapId)
     /\ last.output = issued[last.mapId].anonPrompt
     /\ last.signature = issued[last.mapId].signature
     /\ last.request = issued[last.mapId].config)
        => (last.outcome = "ok" /\ last.text = issued[last.mapId].prompt)

\* C24: index.healthCheck with signatures enabled and no secret returns
\* healthy = false, components.configuration = false and details that hold
\* a configValidation with a non-empty list of errors
C24_HealthCheckReportsConfig ==
    (/\ last.op = "index.healthCheck"
     /\ last.request.enableSignatures
     /\ Falsy(last.request.signatureSecret))
        => (/\ ~last.health.healthy
            /\ ~last.health.components.configuration
            /\ "configValidation" \in DOMAIN last.health.details
            /\ Len(last.health.details.configValidation.errors) > 0)

\* two spans share at least one position
Intersect(a, b) == a.startIndex < b.endIndex /\ b.startIndex < a.endIndex

\* the candidates of the last detectTokens call that are not in its result
Dropped ==
    {Candidates(detector, last.output)[i] :
         i \in 1..Len(Candidates(detector, last.output))}
        \ {detected[j] : j \in 1..Len(detected)}

\* C25 (SpecDetect): every candidate that detectTokens does not return
\* overlaps a returned token whose confidence is at least its own; so a
\* candidate that overlaps no returned token is returned
C25_NoLossWithoutCause ==
    last.op = "detectTokens"
        => \A c \in Dropped :
               \E j \in 1..Len(detected) :
                   /\ Intersect(c, detected[j])
                   /\ detected[j].confidence >= c.confidence

\* the text the patterns of the configured detector run on
Processed(text) == IF detector.caseSensitive THEN text ELSE ToLowerCase(text)

\* the spans a token of a type may report for a text: the captured group of a
\* match of its pattern where the pattern has a group, else the whole match
MatchSpans(type, text) ==
    IF type = "CUSTOM"
    THEN UNION {{<<i, i + Len(detector.customPatterns[k].literal)>> :
                    i \in {j \in 0..Len(text) :
                              /\ j + Len(detector.customPatterns[k].literal) <= Len(text)
                              /\ Slice(Processed(text), j,
                                       j + Len(detector.customPatterns[k].literal))
                                     = detector.customPatterns[k].literal}} :
                   k \in 1..Len(detector.customPatterns)}
    ELSE {<<IF PatternAt(type, Processed(text), i).hasGroup
            THEN PatternAt(type, Processed(text), i).gstart
            ELSE PatternAt(type, Processed(text), i).index,
            PatternAt(type, Processed(text), i).end>> :
              i \in {j \in 0..Len(text) : PatternAt(type, Processed(text), j).found}}

\* C26 (SpecDetect): in both case modes every returned token reports the
\* position of the captured group of a match (of the whole match for a
\* pattern without a group), and its value is the input text over that span
C26_PositionTracking ==
    last.op = "detectTokens"
        => \A j \in 1..Len(detected) :
               /\ <<detected[j].startIndex, detected[j].endIndex>>
                      \in MatchSpans(detected[j].type, last.output)
               /\ detected[j].endIndex <= Len(last.output)
               /\ detected[j].value
                      = Slice(last.output, detected[j].startIndex, detected[j].endIndex)

\* a prompt rewritten from left to right: the text before each token, the
\* proxy of the token's value in place of its span, the text after the last
RECURSIVE LeftToRight(_, _, _)
LeftToRight(prompt, tokens, from) ==
    IF tokens = <<>> THEN Slice(prompt, from, Len(prompt))
    ELSE Slice(prompt, from, Head(tokens).startIndex)
             \o StrategyAnonymize(Head(tokens).value, config, instanceSalt)
             \o LeftToRight(prompt, Tail(tokens), Head(tokens).endIndex)

\* C27 (SpecConcurrent): the anonPrompt that anonymize returns is the prompt
\* with each detected span replaced by the proxy of that token's value and
\* every character outside the spans kept, in order; processing the tokens
\* from the right never shifts the offsets of the tokens still to be replaced
C27_SpansReplaced ==
    (last.op = "anonymize" /\ last.outcome = "ok")
        => last.text = LeftToRight(last.output, ConcurrentDetected[last.output], 0)

\* an anonymize of a prompt with two tokens returned, with two different
\* proxies in its anonPrompt
C27_Witness ==
    /\ last.op = "anonymize"
    /\ last.outcome = "ok"
    /\ Len(ConcurrentDetected[last.output]) = 2
    /\ StrategyAnonymize(ConcurrentDetected[last.output][1].value, config, instanceSalt)
           # StrategyAnonymize(ConcurrentDetected[last.output][2].value, config,
                               instanceSalt)

\* every occurrence of a proxy replaced by the original, character for
\* character, scanning from the left
RECURSIVE LiteralFrom(_, _, _, _)
LiteralFrom(str, i, proxyToken, originalToken) ==
    IF i >= Len(str) THEN <<>>
    ELSE IF Len(proxyToken) > 0 /\ i + Len(proxyToken) <= Len(str)
            /\ Slice(str, i, i + Len(proxyToken)) = proxyToken
    THEN originalToken \o LiteralFrom(str, i + Len(proxyToken), proxyToken, originalToken)
    ELSE <<CharAt(str, i)>> \o LiteralFrom(str, i + 1, proxyToken, originalToken)
RECURSIVE LiteralRestore(_, _)
LiteralRestore(output, entries) ==
    IF entries = <<>> THEN output
    ELSE LiteralRestore(LiteralFrom(output, 0, Head(entries).key, Head(entries).value),
                        Tail(entries))

\* C28 (Spec): when deanonymize succeeds on a stored, non-empty mapping, the
\* text it returns is the output with every occurrence of each mapped proxy
\* replaced by the stored original character for character, whatever
\* characters the original contains, and all other text unchanged
C28_LiteralRestore ==
    (/\ RetrievedIssued
     /\ last.outcome = "ok"
     /\ issued[last.mapId].entries # <<>>)
        => last.text = LiteralRestore(last.output, issued[last.mapId].entries)

(***************************************************************************)
(* A backend that hands the pairs of a mapping back in another order (the  *)
(* Vault backend rebuilds the Map from the keys of the object it reads)    *)
(***************************************************************************)
\* new Map(Object.entries(data.mappings)) when the keys come back in order
Reordered(data, order) ==
    [data EXCEPT !.mappings = [i \in 1..Len(data.mappings) |-> data.mappings[order[i]]]]

\* the record stored under mapId comes back with its pairs in another order
ReorderStored(mapId, order) ==
    /\ MapHas(mappings, mapId)
    /\ Reordered(MapGet(mappings, mapId), order) # MapGet(mappings, mapId)
    /\ mappings' = MapSet(mappings, mapId, Reordered(MapGet(mappings, mapId), order))
    /\ last' = [NoLast EXCEPT !.op = "reorder", !.mapId = mapId]
    /\ UNCHANGED <<vaultVars, engineVars, maxSize, ttlMs, cleanupInterval, timers, now, ticks>>

NextOrder ==
    \/ \E prompt \in OrderPrompts : Anonymize(TRUE, prompt)
    \/ \E mapId \in KnownIds : \E args \in DeanonymizeArgs(mapId) :
           Deanonymize(args[1], mapId, args[2])
    \/ \E mapId \in 1..MaxIds :
           \E order \in Permutations(1..Len(IF MapHas(mappings, mapId)
                                            THEN MapGet(mappings, mapId).mappings
                                            ELSE <<>>)) :
               ReorderStored(mapId, order)

SpecOrder == Init /\ [][NextOrder]_vars

\* the pairs of a mapping, as a set
PairSet(entries) == {entries[i] : i \in 1..Len(entries)}

\* the last operation was a deanonymize that found a record holding exactly
\* the pairs anonymize stored under that id, in whatever order
RetrievedSamePairs ==
    /\ RetrievedIssued
    /\ MapHas(mappings, last.mapId)
    /\ Len(MapGet(mappings, last.mapId).mappings) = Len(issued[last.mapId].entries)
    /\ PairSet(MapGet(mappings, last.mapId).mappings) = PairSet(issued[last.mapId].entries)

\* C29 (SpecOrder): the text deanonymize returns does not depend on the order
\* in which the pairs of the mapping are applied: with the same pairs in any
\* order it is the text the insertion order gives
C29_OrderIndependent ==
    (RetrievedSamePairs /\ last.outcome = "ok")
        => last.text = RestoreTokens(last.output, issued[last.mapId].entries)

\* C30 (SpecOrder): with signatures enabled, the HMAC that deanonymize
\* recomputes from the stored pairs matches the signature anonymize returned
\* whatever order the backend hands the pairs back in: the call is not
\* rejected as tampered
C30_SignatureOrderIndependent ==
    (/\ RetrievedSamePairs
     /\ config.enableSignatures
     /\ issued[last.mapId].entries # <<>>
     /\ last.signature = issued[last.mapId].signature)
        => last.outcome = "ok"

\* the tokens of a prompt that receive a given proxy under the engine's
\* strategy, as positions in the detector's result
TokensWithProxy(prompt, proxyToken) ==
    {i \in 1..Len(Detected[prompt]) :
         StrategyAnonymize(Detected[prompt][i].value, config, instanceSalt) = proxyToken}

\* the leftmost of the tokens of a prompt that receive a proxy
LeftmostWithProxy(prompt, proxyToken) ==
    Detected[prompt][CHOOSE i \in TokensWithProxy(prompt, proxyToken) :
                         \A j \in TokensWithProxy(prompt, proxyToken) :
                             Detected[prompt][i].startIndex
                                 <= Detected[prompt][j].startIndex]

\* C31 (SpecOrder): the mapping anonymize stores has exactly one entry per
\* distinct proxy produced in the call; when several tokens receive the same
\* proxy the entry holds the value of the one processed last, the one with
\* the smallest startIndex; the call completes without an error
C31_CollisionPolicy ==
    (last.op = "anonymize" /\ Issued(last.mapId))
        => LET rec == issued[last.mapId]
           IN /\ last.outcome = "ok"
              /\ \A i, j \in 1..Len(rec.entries) :
                     rec.entries[i].key = rec.entries[j].key => i = j
              /\ {rec.entries[i].key : i \in 1..Len(rec.entries)}
                     = {StrategyAnonymize(Detected[rec.prompt][k].value, config,
                                          instanceSalt) :
                            k \in 1..Len(Detected[rec.prompt])}
              /\ \A i \in 1..Len(rec.entries) :
                     rec.entries[i].value
                         = LeftmostWithProxy(rec.prompt, rec.entries[i].key).value

\* anonymize returned for a prompt whose two tokens have different values and
\* the same proxy: one entry was stored
C31_Witness ==
    /\ last.op = "anonymize"
    /\ Issued(last.mapId)
    /\ Len(Detected[issued[last.mapId].prompt]) = 2
    /\ Detected[issued[last.mapId].prompt][1].value
           # Detected[issued[last.mapId].prompt][2].value
    /\ Cardinality(TokensWithProxy(issued[last.mapId].prompt,
                                   issued[last.mapId].entries[1].key)) = 2
    /\ Len(issued[last.mapId].entries) = 1

(***************************************************************************)
(* detectTokens with caller-supplied regular expressions, one iteration of *)
(* the exec loop at a time.  A custom pattern is a literal text (possibly  *)
(* empty, which matches the empty string) with or without the global flag  *)
(***************************************************************************)
MaxPushed == 3

ScanLiterals == {<<>>, <<"a", "b">>}
ScanPatterns == {[literal |-> l, global |-> g] : l \in ScanLiterals, g \in BOOLEAN}
ScanPatternLists == UNION {[1..n -> ScanPatterns] : n \in 0..MaxPatterns}
ScanTexts == {<<>>, <<"a", "b">>, <<"b", "a">>, <<"a", "b", "a", "b">>}
\* new TokenDetector(config)
ScanConfigs ==
    {[DEFAULT_DETECTION_CONFIG EXCEPT !.minLength = m, !.customPatterns = ps,
                                      !.exclusions = ex] :
         m \in {2, DefaultMinLength}, ps \in ScanPatternLists,
         ex \in {DefaultExclusions, {<<"a", "b">>}}}

InitScan ==
    /\ config = DefaultEngineConfig
    /\ instanceSalt = GeneratedSalt
    /\ detector \in ScanConfigs
    /\ mappings = <<>>
    /\ maxSize = DefaultMaxSize
    /\ ttlMs = DefaultTtlMs
    /\ cleanupInterval = TRUE
    /\ timers = 1
    /\ now = 0
    /\ ticks = 0
    /\ nextId = 1
    /\ issued = <<>>
    /\ deleted = {}
    /\ detected = <<>>
    /\ constructed = TRUE
    /\ pending = <<>>
    /\ vault = FALSE
    /\ isInitialized = FALSE
    /\ last = NoLast

\* the leftmost occurrence of a literal at or after position i
RECURSIVE LiteralExec(_, _, _)
LiteralExec(literal, t, i) ==
    IF i + Len(literal) > Len(t) THEN NoMatch
    ELSE IF Slice(t, i, i + Len(literal)) = literal
    THEN [found |-> TRUE, index |-> i, end |-> i + Len(literal), hasGroup |-> FALSE,
          gstart |-> i]
    ELSE LiteralExec(literal, t, i + 1)

\* RegExp.prototype.exec: a global pattern searches from lastIndex, a pattern
\* without the global flag always searches from the start
RegExpExec(pattern, t, lastIndex) ==
    LiteralExec(pattern.literal, t, IF pattern.global THEN lastIndex ELSE 0)

\* lastIndex after exec: the end of the match for a global pattern (an empty
\* match leaves it where it was), 0 after a failed search, and unchanged for a
\* pattern without the global flag
LastIndexAfter(pattern, match, lastIndex) ==
    IF ~pattern.global THEN lastIndex
    ELSE IF match.found THEN match.end ELSE 0

\* detected.push(...): the array grows with every push; the model stops
\* recording at MaxPushed elements
Pushed(tokens, more) == IF Len(tokens) < MaxPushed THEN tokens \o more ELSE tokens

\* detectTokens(text) up to the loop over the custom patterns: the built-in
\* patterns have been scanned
ScanStart(text) ==
    /\ pending = <<>>
    /\ pending' = <<[text |-> text, k |-> 1, lastIndex |-> 0, odd |-> FALSE]>>
    /\ detected' = ScanAll(detector, detector.patterns, text,
                           IF detector.caseSensitive THEN text ELSE ToLowerCase(text))
    /\ last' = [NoLast EXCEPT !.op = "detectTokens.start", !.output = text]
    /\ UNCHANGED <<vaultVars, config, instanceSalt, detector, nextId, issued, deleted, constructed,
                   storageVars, now, ticks>>

\* one evaluation of (match = pattern.exec(processedText)) !== null for the
\* current custom pattern, and the body of the loop when it matched; odd is
\* the parity of the number of times the body has run for this pattern
ScanIteration(c, pattern, match) ==
    /\ pending' = <<IF match.found
                    THEN [c EXCEPT !.lastIndex =
                                       LastIndexAfter(pattern, match, c.lastIndex),
                                   !.odd = ~c.odd]
                    ELSE [c EXCEPT !.k = c.k + 1, !.lastIndex = 0, !.odd = FALSE]>>
    /\ detected' = IF match.found
                   THEN Pushed(detected,
                               CustomToken(detector, c.text, match,
                                           Slice(c.text, match.index, match.end)))
                   ELSE detected
    /\ last' = [NoLast EXCEPT !.op = "detectTokens.exec", !.output = c.text]
    /\ UNCHANGED <<vaultVars, config, instanceSalt, detector, nextId, issued, deleted, constructed,
                   storageVars, now, ticks>>

ScanStep ==
    /\ pending # <<>>
    /\ pending[1].k <= Len(detector.customPatterns)
    /\ ScanIteration(pending[1], detector.customPatterns[pending[1].k],
                     RegExpExec(detector.customPatterns[pending[1].k],
                                IF detector.caseSensitive THEN pending[1].text
                                ELSE ToLowerCase(pending[1].text),
                                pending[1].lastIndex))

\* return this.deduplicateTokens(detected)
ScanFinish ==
    /\ pending # <<>>
    /\ pending[1].k > Len(detector.customPatterns)
    /\ detected' = deduplicateTokens(detected)
    /\ pending' = <<>>
    /\ last' = [NoLast EXCEPT !.op = "detectTokens", !.output = pending[1].text]
    /\ UNCHANGED <<vaultVars, config, instanceSalt, detector, nextId, issued, deleted, constructed,
                   storageVars, now, ticks>>

NextScan ==
    \/ \E text \in ScanTexts : ScanStart(text)
    \/ ScanStep
    \/ ScanFinish

SpecScan == InitScan /\ [][NextScan]_vars

\* the loop runs on: a call that can take a step eventually takes one
SpecScanFair == SpecScan /\ WF_vars(ScanStep) /\ WF_vars(ScanFinish)

\* C32 (SpecScanFair): every call of detectTokens returns, for every text
\* and every detector configuration, whatever custom patterns it holds
C32_DetectTerminates == (pending # <<>>) ~> (pending = <<>>)

\* C33 (SpecScan): no token that detectTokens returns, from a built-in or a
\* custom pattern, has a value that is in the exclusions list when compared
\* case-insensitively, and none is shorter than minLength
C33_ExclusionsRespected ==
    last.op = "detectTokens"
        => \A j \in 1..Len(detected) :
               /\ ToLowerCase(detected[j].value)
                      \notin {ToLowerCase(e) : e \in detector.exclusions}
               /\ Len(detected[j].value) >= detector.minLength

\* C34 (SpecStorage): a MemoryStorage constructed with maxSize >= 1 never
\* holds more than maxSize entries, whatever sequence of store, retrieve,
\* delete, clear, setTTL, sweep and dispose has run
C34_CapacityInvariant == maxSize >= 1 => Len(mappings) <= maxSize

\* C34 witness: a store of a new id into a full table of capacity 1 left the
\* table with exactly one entry, the new one
C34_Witness ==
    /\ last.op = "store"
    /\ last.outcome = "ok"
    /\ ~last.found
    /\ last.evicted # {}
    /\ maxSize = 1
    /\ MapKeys(mappings) = {last.mapId}

\* C35 (SpecStorage): the entry evicted by a store at capacity is the least
\* recently used one: no entry present before the store has an older
\* createdAt than the evicted entry, so an entry refreshed by re-storing its
\* id is not evicted while an older entry is present
C35_EvictionFollowsRecency ==
    [][(last'.op = "store" /\ last'.outcome = "ok")
           => \A id \in last'.evicted : \A j \in 1..Len(mappings) :
                  MapGet(mappings, id).createdAt <= mappings[j].value.createdAt]_vars

\* C36 (SpecStorage): a store at capacity never evicts an entry whose age is
\* within the TTL while the table holds an entry whose age exceeds the TTL
C36_EvictsDeadBeforeLive ==
    [][(last'.op = "store" /\ last'.outcome = "ok")
           => \A id \in last'.evicted :
                  ~Expired(MapGet(mappings, id), ttlMs, now)
                      => \A j \in 1..Len(mappings) :
                             ~Expired(mappings[j].value, ttlMs, now)]_vars

\* C37 (SpecStorage): at every moment the storage has at most one active
\* sweep timer, one is active only while ttl > 0, and once dispose() has run
\* no sweep timer is active in any later state, whatever is called afterwards
\* (stated for the step that follows a dispose: it leaves no timer active)
C37_SweepTimerLifecycle ==
    [][/\ timers' <= 1
       /\ timers' > 0 => ttlMs' > 0
       /\ (last.op = "dispose" /\ timers = 0) => timers' = 0]_vars

(***************************************************************************)
(* deanonymize suspended at its await of storage.retrieve, racing with     *)
(* deleteMapping, dispose and the TTL sweep                                *)
(***************************************************************************)
MaxRacing == 1

\* (mutation) the continuation reads the pairs from the table as it is when
\* the call resumes
ResumeDataFromTable(call, table) ==
    IF MapHas(table, call.mapId) THEN MapGet(table, call.mapId)
    ELSE [call.data EXCEPT !.mappings = <<>>]

\* const mappingData = await this.storage.retrieve(mapId): the object that
\* retrieve returned
ResumeData(call, table) == call.data

\* deanonymize up to its await: the arguments are validated and
\* storage.retrieve has run
DeanonymizeCall(output, mapId, signature) ==
    /\ Len(pending) < MaxRacing
    /\ pending' = Append(pending,
                         [output |-> output, mapId |-> mapId, signature |-> signature,
                          found |-> RetrieveFinds(output, mapId),
                          data |-> IF RetrieveFinds(output, mapId)
                                   THEN MapGet(mappings, mapId) ELSE NoData])
    /\ mappings' = IF ~Falsy(output) /\ IsString(output) /\ ValidId(mapId)
                   THEN MemRetrieveTable(mappings, ttlMs, mapId, now)
                   ELSE mappings
    /\ last' = [NoLast EXCEPT !.op = "deanonymize.call", !.output = output,
                              !.mapId = mapId, !.signature = signature]
    /\ UNCHANGED <<vaultVars, config, instanceSalt, detector, nextId, issued, deleted, detected,
                   constructed, maxSize, ttlMs, cleanupInterval, timers, now, ticks>>

\* the result of the continuation of a suspended call
ResumeResult(call, table) ==
    DeanonymizeCompute(config, call.found, ResumeData(call, table), call.output,
                       call.mapId, call.signature)

\* deanonymize from its await to its return or throw
DeanonymizeResume ==
    /\ pending # <<>>
    /\ pending' = Tail(pending)
    /\ last' = [NoLast EXCEPT !.op = "deanonymize", !.output = pending[1].output,
                              !.mapId = pending[1].mapId,
                              !.signature = pending[1].signature,
                              !.outcome = ResumeResult(pending[1], mappings).outcome,
                              !.msg = ResumeResult(pending[1], mappings).msg,
                              !.text = ResumeResult(pending[1], mappings).text,
                              !.found = pending[1].found]
    /\ UNCHANGED <<vaultVars, config, instanceSalt, detector, nextId, issued, deleted, detected,
                   constructed, storageVars, now, ticks>>

NextRace ==
    \/ Anonymize(TRUE, PromptEmails)
    \/ \E mapId \in KnownIds : \E a \in DeanonymizeArgs(mapId) :
           DeanonymizeCall(a[1], mapId, a[2])
    \/ DeanonymizeResume
    \/ \E mapId \in KnownIds : DeleteMapping(mapId)
    \/ Dispose
    \/ Sweep
    \/ Tick(DefaultTtlMs + 1)

SpecRace == Init /\ [][NextRace]_vars

\* C38 (SpecRace): a deanonymize that races with deleteMapping, dispose or a
\* sweep on its id either fails with a ValidationError or a SignatureError,
\* or returns the output with every pair of the complete stored mapping
\* applied; it never returns a partially substituted text
C38_AllOrNothing ==
    last.op = "deanonymize"
        => \/ last.outcome \in {"ValidationError", "SignatureError"}
           \/ /\ last.outcome = "ok"
              /\ Issued(last.mapId)
              /\ last.text = RestoreTokens(last.output, issued[last.mapId].entries)

\* C38 witness: a deanonymize returned the fully restored text of a mapping
\* of two pairs although the mapping left the table while the call was
\* suspended
C38_Witness ==
    /\ last.op = "deanonymize"
    /\ last.outcome = "ok"
    /\ last.found
    /\ ~MapHas(mappings, last.mapId)
    /\ Len(issued[last.mapId].entries) = 2
    /\ last.text = issued[last.mapId].prompt
    /\ last.text # last.output

(***************************************************************************)
(* VaultStorage: store, retrieve and delete against the external secret    *)
(* store, whose replies are inputs; every await is a step                  *)
(***************************************************************************)
MaxVaultCalls == 2

VaultOps == {"store", "retrieve", "delete"}
\* the replies of the collaborator to write, read and delete: a value, a
\* reply without data, a 404 error, any other error
VaultReplies == {"ok", "empty", "notFound", "error"}

InitVault ==
    /\ config = DefaultEngineConfig
    /\ instanceSalt = GeneratedSalt
    /\ detector = DEFAULT_DETECTION_CONFIG
    /\ mappings = <<>>
    /\ maxSize = DefaultMaxSize
    /\ ttlMs = DefaultTtlMs
    /\ cleanupInterval = FALSE
    /\ timers = 0
    /\ now = 0
    /\ ticks = 0
    /\ nextId = 1
    /\ issued = <<>>
    /\ deleted = {}
    /\ detected = <<>>
    /\ constructed = TRUE
    /\ pending = <<>>
    /\ vault = FALSE
    /\ isInitialized = FALSE
    /\ last = NoLast

VaultMessage(op) ==
    IF op = "store" THEN "Failed to store mapping in Vault"
    ELSE IF op = "retrieve" THEN "Failed to retrieve mapping from Vault"
    ELSE "Failed to delete mapping from Vault"

\* (mutation) the inner catch of retrieve and delete swallows every error
VaultResultSwallowsErrors(op, cause) ==
    IF op \in {"retrieve", "delete"} \/ cause \in {"ok", "empty"}
    THEN [outcome |-> "ok", msg |-> "", found |-> op = "retrieve" /\ cause = "ok"]
    ELSE [outcome |-> "StorageError", msg |-> VaultMessage(op), found |-> FALSE]

\* what the caller of store, retrieve or delete gets, by what happened:
\* an invalid id, a failed status probe in initialize, a call on a client
\* that dispose() set to null, or the reply of the collaborator
VaultResult(op, cause) ==
    IF cause = "invalidId"
    THEN [outcome |-> "StorageError", msg |-> "Map ID must be a non-empty string",
          found |-> FALSE]
    ELSE IF cause = "statusError"
    THEN [outcome |-> "StorageError", msg |-> "Failed to initialize Vault connection",
          found |-> FALSE]
    ELSE IF cause \in {"ok", "empty"}
    THEN [outcome |-> "ok", msg |-> "", found |-> op = "retrieve" /\ cause = "ok"]
    ELSE IF cause = "notFound" /\ op \in {"retrieve", "delete"}
    THEN [outcome |-> "ok", msg |-> "", found |-> FALSE]
    ELSE [outcome |-> "StorageError", msg |-> VaultMessage(op), found |-> FALSE]

\* the call i returns or throws
VaultComplete(i, cause) ==
    /\ pending' = [j \in 1..(Len(pending) - 1) |->
                       IF j < i THEN pending[j] ELSE pending[j + 1]]
    /\ last' = [NoLast EXCEPT !.op = "vault." \o pending[i].op,
                              !.mapId = pending[i].mapId,
                              !.outcome = VaultResult(pending[i].op, cause).outcome,
                              !.msg = VaultResult(pending[i].op, cause).msg,
                              !.found = VaultResult(pending[i].op, cause).found,
                              !.request = <<cause>>]

\* store / retrieve / delete up to the first await: initialize() returns at
\* once when a client is there, or creates one and probes its status
VaultCall(op, mapId) ==
    /\ Len(pending) < MaxVaultCalls
    /\ pending' = Append(pending,
                         [op |-> op, mapId |-> mapId,
                          pc |-> IF isInitialized /\ vault THEN "initialized"
                                 ELSE "status"])
    /\ vault' = TRUE
    /\ last' = [NoLast EXCEPT !.op = "vault.call", !.mapId = mapId]
    /\ UNCHANGED <<isInitialized, config, instanceSalt, detector, nextId, issued, deleted,
                   detected, constructed, storageVars, now, ticks>>

\* initialize() resumes after await this.vault.status()
VaultStatus(i, ok) ==
    /\ pending[i].pc = "status"
    /\ IF ok
       THEN /\ isInitialized' = TRUE
            /\ pending' = [pending EXCEPT ![i].pc = "initialized"]
            /\ last' = [NoLast EXCEPT !.op = "vault.status", !.mapId = pending[i].mapId]
            /\ UNCHANGED vault
       ELSE /\ VaultComplete(i, "statusError")
            /\ UNCHANGED vaultVars
    /\ UNCHANGED <<config, instanceSalt, detector, nextId, issued, deleted, detected,
                   constructed, storageVars, now, ticks>>

\* the operation resumes after await this.initialize(): the id is checked
\* and this.vault.write / read / delete is called
VaultRequest(i) ==
    /\ pending[i].pc = "initialized"
    /\ IF ~ValidId(pending[i].mapId) THEN VaultComplete(i, "invalidId")
       ELSE IF ~vault THEN VaultComplete(i, "noClient")
       ELSE /\ pending' = [pending EXCEPT ![i].pc = "request"]
            /\ last' = [NoLast EXCEPT !.op = "vault.request", !.mapId = pending[i].mapId]
    /\ UNCHANGED <<vaultVars, config, instanceSalt, detector, nextId, issued, deleted,
                   detected, constructed, storageVars, now, ticks>>

\* the operation resumes with the reply of the collaborator
VaultReply(i, reply) ==
    /\ pending[i].pc = "request"
    /\ VaultComplete(i, reply)
    /\ UNCHANGED <<vaultVars, config, instanceSalt, detector, nextId, issued, deleted,
                   detected, constructed, storageVars, now, ticks>>

\* VaultStorage.dispose
VaultDispose ==
    /\ vault' = FALSE
    /\ isInitialized' = FALSE
    /\ last' = [NoLast EXCEPT !.op = "vault.dispose"]
    /\ UNCHANGED <<config, instanceSalt, detector, nextId, issued, deleted, detected,
                   constructed, pending, storageVars, now, ticks>>

NextVault ==
    \/ \E op \in VaultOps : \E mapId \in {0, 1} : VaultCall(op, mapId)
    \/ \E i \in 1..Len(pending) : \E ok \in BOOLEAN : VaultStatus(i, ok)
    \/ \E i \in 1..Len(pending) : VaultRequest(i)
    \/ \E i \in 1..Len(pending) : \E reply \in VaultReplies : VaultReply(i, reply)
    \/ VaultDispose

SpecVault == InitVault /\ [][NextVault]_vars

\* C39 (SpecVault): a 404 reply makes retrieve return absent and delete
\* complete without error; every other failure of the collaborator in store,
\* retrieve or delete, a call on the client that dispose() cleared included,
\* reaches the caller as a StorageError, never as a successful result
C39_VaultErrorTranslation ==
    last.op \in {"vault.store", "vault.retrieve", "vault.delete"}
        => /\ (last.request = <<"notFound">> /\ last.op = "vault.retrieve")
                  => (last.outcome = "ok" /\ ~last.found)
           /\ (last.request = <<"notFound">> /\ last.op = "vault.delete")
                  => last.outcome = "ok"
           /\ (\/ last.request \in {<<"error">>, <<"statusError">>, <<"noClient">>}
               \/ (last.request = <<"notFound">> /\ last.op = "vault.store"))
                  => last.outcome = "StorageError"

\* C39 witness: a retrieve that resumed after dispose() had cleared the
\* client threw a StorageError
C39_Witness ==
    /\ last.op = "vault.retrieve"
    /\ last.request = <<"noClient">>
    /\ last.outcome = "StorageError"
    /\ ~vault
    /\ ~isInitialized

====
